---- MODULE Spec2Model ----
(***************************************************************************)
(* nactl (Windows): the parsers of the ping, tracert, netsh wlan and       *)
(* ipconfig console output, as state machines that walk the captured text *)
(* line by line the way parse_ping_output, parse_tracert_output,          *)
(* parse_wifi_networks, get_wifi_status and get_ip_config do.             *)
(*                                                                         *)
(* Text.  A captured output is a sequence of lines and a line a sequence   *)
(* of tokens, one token per piece of text a regular expression of the      *)
(* source looks at.  Two neighbouring tokens are neighbouring text, with   *)
(* nothing but what the tokens themselves spell between them.  A decimal   *)
(* numeral of the text is the sequence of its digits, so that parse::<u32> *)
(* can fail on it as it does in the source.  An IPv4 address is the digits *)
(* of its first octet and the rest of it.                                  *)
(*                                                                         *)
(* Option<T> is a sequence of length 0 (None) or 1 (Some).  An f64 is the  *)
(* rational (hi * 2^32 + num) / den.                                       *)
(***************************************************************************)
EXTENDS Integers, Sequences, FiniteSets, TLC

VARIABLES ping, trace, wifi, status

vars == <<ping, trace, wifi, status>>

\* The longest captured output, in lines, and the largest requested count.
MaxLines == 3
MaxCount == 2

---------------------------------------------------------------------------
\* Option<T>
None == <<>>
Some(x) == <<x>>
IsSome(o) == o /= <<>>
IsNone(o) == o = <<>>
Unwrap(o) == o[1]

---------------------------------------------------------------------------
\* Decimal numerals and their parsing

RECURSIVE StripZeros(_)
StripZeros(ds) ==
    IF Len(ds) > 1 /\ ds[1] = 0 THEN StripZeros(Tail(ds)) ELSE ds

RECURSIVE DigitsValue(_)
DigitsValue(ds) ==
    IF ds = <<>> THEN 0
    ELSE 10 * DigitsValue(SubSeq(ds, 1, Len(ds) - 1)) + ds[Len(ds)]

\* u32::MAX, 4294967295, as a numeral
U32MaxDigits == <<4, 2, 9, 4, 9, 6, 7, 2, 9, 5>>

RECURSIVE LexLE(_, _)
LexLE(a, b) ==
    IF a = <<>> THEN TRUE
    ELSE IF a[1] /= b[1] THEN a[1] < b[1]
    ELSE LexLE(Tail(a), Tail(b))

FitsU32(ds) ==
    LET s == StripZeros(ds)
    IN  Len(s) < Len(U32MaxDigits)
        \/ (Len(s) = Len(U32MaxDigits) /\ LexLE(s, U32MaxDigits))

\* str::parse::<u32>() of a \d+ capture: Err when the value exceeds u32::MAX
ParseU32(ds) == IF FitsU32(ds) THEN Some(DigitsValue(StripZeros(ds))) ELSE None

---------------------------------------------------------------------------
\* f64 values

RECURSIVE Gcd(_, _)
Gcd(a, b) == IF b = 0 THEN a ELSE Gcd(b, a % b)

Ratio(n, d) ==
    LET g == Gcd(n, d) IN [hi |-> 0, num |-> n \div g, den |-> d \div g]

\* str::parse::<f64>() of a \d+ capture: never Err
ParseF64(ds) == Some(Ratio(DigitsValue(StripZeros(ds)), 1))

F64Less(a, b) == a.num * b.den < b.num * a.den

RECURSIVE F64Min(_)
F64Min(ts) ==
    IF Len(ts) = 1 THEN ts[1]
    ELSE LET m == F64Min(SubSeq(ts, 1, Len(ts) - 1))
         IN  IF F64Less(ts[Len(ts)], m) THEN ts[Len(ts)] ELSE m

RECURSIVE F64Max(_)
F64Max(ts) ==
    IF Len(ts) = 1 THEN ts[1]
    ELSE LET m == F64Max(SubSeq(ts, 1, Len(ts) - 1))
         IN  IF F64Less(m, ts[Len(ts)]) THEN ts[Len(ts)] ELSE m

RECURSIVE F64Sum(_)
F64Sum(ts) ==
    IF ts = <<>> THEN Ratio(0, 1)
    ELSE LET s == F64Sum(Tail(ts))
         IN  Ratio(ts[1].num * s.den + s.num * ts[1].den, ts[1].den * s.den)

F64Avg(ts) == LET s == F64Sum(ts) IN Ratio(s.num, s.den * Len(ts))

---------------------------------------------------------------------------
\* Text: addresses, tokens, lines

RECURSIVE Numeral(_)
Numeral(n) == IF n < 10 THEN <<n>> ELSE Append(Numeral(n \div 10), n % 10)

\* A dotted address "<o1><tl>", or any other word (no leading digits)
Addr(o1, tl) == [o1 |-> o1, tl |-> tl]
Word(w) == Addr(<<>>, w)
NoAddr == Word("")

IpA == Addr(<<1, 4, 2>>, ".250.80.46")
IpB == Addr(<<8>>, ".8.8.8")
IpC == Addr(<<1, 0>>, ".0.0.1")

Tok(t, a, v) == [t |-> t, a |-> a, v |-> v]

\* A numeral beyond u32::MAX: "4294967296"
TooBig == <<4, 2, 9, 4, 9, 6, 7, 2, 9, 6>>

SetMin(S) == CHOOSE x \in S : \A y \in S : x <= y

---------------------------------------------------------------------------
\* ping: the text of Windows ping

\* "Pinging <host> [<ip>] with 32 bytes of data:"
TPingingHost(ip) == Tok("Pinging host [ip]", ip, <<>>)
\* "Pinging <ip> with 32 bytes of data:"
TPingingIp(ip) == Tok("Pinging ip", ip, <<>>)
\* "Reply from <ip>:"
TReplyFrom(ip) == Tok("Reply from ip:", ip, <<>>)
\* " bytes=32 "
TBytes == Tok(" bytes=32 ", NoAddr, <<>>)
\* "time=<n>ms" or "time<<n>ms"
TTime(n) == Tok("time=ms", NoAddr, <<n>>)
\* " TTL=<n>"
TTtl(n) == Tok("TTL=", NoAddr, <<n>>)
TTimedOut == Tok("Request timed out", NoAddr, <<>>)
TUnreachable == Tok("Destination host unreachable", NoAddr, <<>>)
\* "Packets: Sent = a, Received = b, Lost = c (d% loss),"
TStats(a, b, c, d) == Tok("Sent = , Received = , Lost = (%", NoAddr, <<a, b, c, d>>)
\* "Minimum = xms, Maximum = yms, Average = zms"
TTiming(x, y, z) == Tok("Minimum = ms, Maximum = ms, Average = ms", NoAddr, <<x, y, z>>)
\* any other text
TOther == Tok("Ping statistics for", NoAddr, <<>>)

PingLines ==
    { <<TPingingHost(IpA)>>,
      <<TPingingIp(IpB)>>,
      <<TReplyFrom(IpA), TBytes, TTime(Numeral(12)), TTtl(Numeral(117))>>,
      <<TReplyFrom(IpB), TTime(Numeral(5)), TTtl(Numeral(64))>>,
      <<TReplyFrom(IpB), TTime(Numeral(20)), TTtl(TooBig)>>,
      <<TTimedOut>>,
      <<TReplyFrom(IpC), TUnreachable>>,
      <<TOther>>,
      <<TStats(Numeral(4), Numeral(3), Numeral(1), Numeral(25))>>,
      <<TStats(TooBig, TooBig, Numeral(0), Numeral(0))>>,
      <<TTiming(Numeral(7), Numeral(9), Numeral(8))>> }

PingOutputs == UNION {[1..n -> PingLines] : n \in 0..MaxLines}

HasTok(line, t) == \E k \in 1..Len(line) : line[k].t = t

\* ip_pattern: Pinging\s+\S+\s+\[?(\d+\.\d+\.\d+\.\d+)\]?  The address must be
\* the second word after "Pinging": the form "Pinging <ip> with" does not match.
IpPatternCaptures(output) ==
    LET hits == {i \in 1..Len(output) : HasTok(output[i], "Pinging host [ip]")}
    IN  IF hits = {} THEN None
        ELSE LET line == output[SetMin(hits)]
                 k == SetMin({j \in 1..Len(line) : line[j].t = "Pinging host [ip]"})
             IN  Some(line[k].a)

\* reply_pattern:
\*   Reply from (\d+\.\d+\.\d+\.\d+):.*?(?:time[<=](\d+)ms)?.*?TTL=(\d+)
\* Leftmost-first matching: the first .*? is tried empty first, and with it the
\* optional time group either matches right after the colon or is skipped, the
\* second .*? then running to the first "TTL=".  Group 2 is set only when the
\* time field directly follows "Reply from <ip>:".
ReplyStarts(line) ==
    {i \in 1..Len(line) :
        /\ line[i].t = "Reply from ip:"
        /\ \E j \in (i + 1)..Len(line) : line[j].t = "TTL="}

ReplyCaptures(line) ==
    IF ReplyStarts(line) = {} THEN None
    ELSE LET i == SetMin(ReplyStarts(line))
             j == SetMin({k \in (i + 1)..Len(line) : line[k].t = "TTL="})
         IN  Some([ip |-> line[i].a,
                   time |-> IF line[i + 1].t = "time=ms"
                            THEN Some(line[i + 1].v[1]) ELSE None,
                   ttl |-> line[j].v[1]])

\* timeout_pattern: Request timed out|Destination host unreachable
TimeoutMatch(line) ==
    HasTok(line, "Request timed out") \/ HasTok(line, "Destination host unreachable")

\* The first match of a one-token pattern in the whole output
FirstTok(output, t) ==
    LET hits == {i \in 1..Len(output) : HasTok(output[i], t)}
    IN  IF hits = {} THEN None
        ELSE LET line == output[SetMin(hits)]
             IN  Some(line[SetMin({j \in 1..Len(line) : line[j].t = t})].v)

\* stats_pattern: Sent\s*=\s*(\d+),\s*Received\s*=\s*(\d+),\s*Lost\s*=\s*(\d+)\s*\((\d+)%
StatsCaptures(output) == FirstTok(output, "Sent = , Received = , Lost = (%")

\* timing_pattern: Minimum\s*=\s*(\d+)ms,\s*Maximum\s*=\s*(\d+)ms,\s*Average\s*=\s*(\d+)ms
TimingCaptures(output) == FirstTok(output, "Minimum = ms, Maximum = ms, Average = ms")

---------------------------------------------------------------------------
\* ping: parse_ping_output and execute

Success == 0
Timeout == 5

\* The state at the call of parse_ping_output(output, host, count)
PingStart(output, count) ==
    [pc |-> "ip_pattern", output |-> output, count |-> count, i |-> 0,
     seq |-> 0, times |-> <<>>,
     data |-> [host |-> "host", resolved_ip |-> None, packets_sent |-> count,
               packets_received |-> 0, packet_loss_percent |-> Ratio(100, 1),
               min_ms |-> None, avg_ms |-> None, max_ms |-> None,
               results |-> <<>>],
     success |-> None, exit |-> None]

PingIdle == [pc |-> "idle"]

IpPattern(p) ==
    LET caps == IpPatternCaptures(p.output)
    IN  [p EXCEPT !.pc = "lines",
                  !.data.resolved_ip = IF IsSome(caps) THEN caps ELSE @]

\* Defective variant: every reply sets the resolved address
ReplyLineLastAddress(p, c) ==
    LET seq == p.seq + 1
        time_ms == IF IsSome(c.time) THEN ParseF64(Unwrap(c.time)) ELSE None
        ttl == ParseU32(c.ttl)
    IN  [p EXCEPT !.i = @ + 1,
                  !.seq = seq,
                  !.times = IF IsSome(time_ms) THEN Append(@, Unwrap(time_ms)) ELSE @,
                  !.data.resolved_ip = Some(c.ip),
                  !.data.results = Append(@, [seq |-> seq, ttl |-> ttl, time_ms |-> time_ms]),
                  !.data.packets_received = @ + 1]

\* A line reply_pattern matches
ReplyLine(p, c) ==
    LET seq == p.seq + 1
        time_ms == IF IsSome(c.time) THEN ParseF64(Unwrap(c.time)) ELSE None
        ttl == ParseU32(c.ttl)
    IN  [p EXCEPT !.i = @ + 1,
                  !.seq = seq,
                  !.times = IF IsSome(time_ms) THEN Append(@, Unwrap(time_ms)) ELSE @,
                  !.data.resolved_ip = IF IsNone(@) THEN Some(c.ip) ELSE @,
                  !.data.results = Append(@, [seq |-> seq, ttl |-> ttl, time_ms |-> time_ms]),
                  !.data.packets_received = @ + 1]

\* Defective variant: a timeout line counted as received
TimeoutLineCounted(p) ==
    LET seq == p.seq + 1
    IN  [p EXCEPT !.i = @ + 1,
                  !.seq = seq,
                  !.data.results = Append(@, [seq |-> seq, ttl |-> None, time_ms |-> None]),
                  !.data.packets_received = @ + 1]

\* A line timeout_pattern matches (and reply_pattern does not)
TimeoutLine(p) ==
    LET seq == p.seq + 1
    IN  [p EXCEPT !.i = @ + 1,
                  !.seq = seq,
                  !.data.results = Append(@, [seq |-> seq, ttl |-> None, time_ms |-> None])]

\* Defective variant: the sequence counter counts every line
SkippedLineCounted(p) == [p EXCEPT !.i = @ + 1, !.seq = @ + 1]

\* A line neither pattern matches
SkippedLine(p) == [p EXCEPT !.i = @ + 1]

Line(p) ==
    LET line == p.output[p.i + 1]
        caps == ReplyCaptures(line)
    IN  IF IsSome(caps) THEN ReplyLine(p, Unwrap(caps))
        ELSE IF TimeoutMatch(line) THEN TimeoutLine(p)
        ELSE SkippedLine(p)

\* "Calculate statistics"
Statistics(p) ==
    IF p.times /= <<>>
    THEN [p EXCEPT !.pc = "packet_loss",
                   !.data.min_ms = Some(F64Min(p.times)),
                   !.data.max_ms = Some(F64Max(p.times)),
                   !.data.avg_ms = Some(F64Avg(p.times))]
    ELSE [p EXCEPT !.pc = "packet_loss"]

\* "Calculate packet loss": packets_sent - packets_received is a u32
\* subtraction.  When it underflows, a build with overflow checks (the debug
\* profile) panics and a build without (the release profile) wraps to
\* 2^32 - (received - sent); which build runs is not the parser's choice.
PacketLoss(p, overflow_checks) ==
    LET sent == p.data.packets_sent
        received == p.data.packets_received
    IN  IF sent > 0
        THEN IF received > sent
             THEN IF overflow_checks
                  THEN [p EXCEPT !.pc = "panic"]
                  ELSE [p EXCEPT !.pc = "stats_pattern",
                                 !.data.packet_loss_percent =
                                     [hi |-> 100, num |-> (0 - 100) * (received - sent),
                                      den |-> sent]]
             ELSE [p EXCEPT !.pc = "stats_pattern",
                            !.data.packet_loss_percent = Ratio((sent - received) * 100, sent)]
        ELSE [p EXCEPT !.pc = "stats_pattern"]

\* Defective variant: the statistics line used as a fallback only, when no line was classified
StatsPatternFallback(p) ==
    LET caps == StatsCaptures(p.output)
    IN  IF IsSome(caps) /\ p.data.results = <<>>
        THEN LET sent == ParseU32(Unwrap(caps)[1])
                 received == ParseU32(Unwrap(caps)[2])
                 loss == ParseF64(Unwrap(caps)[4])
             IN  [p EXCEPT !.pc = "timing_pattern",
                           !.data.packets_sent = IF IsSome(sent) THEN Unwrap(sent) ELSE @,
                           !.data.packets_received =
                               IF IsSome(received) THEN Unwrap(received) ELSE @,
                           !.data.packet_loss_percent =
                               IF IsSome(loss) THEN Unwrap(loss) ELSE @]
        ELSE [p EXCEPT !.pc = "timing_pattern"]

\* "Parse statistics line as fallback"
StatsPattern(p) ==
    LET caps == StatsCaptures(p.output)
    IN  IF IsSome(caps)
        THEN LET sent == ParseU32(Unwrap(caps)[1])
                 received == ParseU32(Unwrap(caps)[2])
                 loss == ParseF64(Unwrap(caps)[4])
             IN  [p EXCEPT !.pc = "timing_pattern",
                           !.data.packets_sent = IF IsSome(sent) THEN Unwrap(sent) ELSE @,
                           !.data.packets_received =
                               IF IsSome(received) THEN Unwrap(received) ELSE @,
                           !.data.packet_loss_percent =
                               IF IsSome(loss) THEN Unwrap(loss) ELSE @]
        ELSE [p EXCEPT !.pc = "timing_pattern"]

\* Defective variant: the timing line overrides the per-line values
TimingPatternOverride(p) ==
    LET caps == TimingCaptures(p.output)
    IN  IF IsSome(caps)
        THEN [p EXCEPT !.pc = "return",
                       !.data.min_ms = ParseF64(Unwrap(caps)[1]),
                       !.data.max_ms = ParseF64(Unwrap(caps)[2]),
                       !.data.avg_ms = ParseF64(Unwrap(caps)[3])]
        ELSE [p EXCEPT !.pc = "return"]

\* "Parse min/max/avg from statistics"
TimingPattern(p) ==
    LET caps == TimingCaptures(p.output)
    IN  IF IsSome(caps)
        THEN [p EXCEPT !.pc = "return",
                       !.data.min_ms = IF IsNone(@) THEN ParseF64(Unwrap(caps)[1]) ELSE @,
                       !.data.max_ms = IF IsNone(@) THEN ParseF64(Unwrap(caps)[2]) ELSE @,
                       !.data.avg_ms = IF IsNone(@) THEN ParseF64(Unwrap(caps)[3]) ELSE @]
        ELSE [p EXCEPT !.pc = "return"]

\* Defective variant: the exit code is Success whatever was received
RespondSuccess(p) ==
    [p EXCEPT !.pc = "done",
              !.success = Some(p.data.packets_received > 0),
              !.exit = Some(Success)]

\* execute, after parse_ping_output returned Ok(data)
Respond(p) ==
    [p EXCEPT !.pc = "done",
              !.success = Some(p.data.packets_received > 0),
              !.exit = IF p.data.packets_received = 0 THEN Some(Timeout) ELSE Some(Success)]

PingIpPattern ==
    /\ ping.pc = "ip_pattern"
    /\ ping' = IpPattern(ping)
    /\ UNCHANGED <<trace, wifi, status>>

PingLine ==
    /\ ping.pc = "lines"
    /\ ping.i < Len(ping.output)
    /\ ping' = Line(ping)
    /\ UNCHANGED <<trace, wifi, status>>

PingStatistics ==
    /\ ping.pc = "lines"
    /\ ping.i = Len(ping.output)
    /\ ping' = Statistics(ping)
    /\ UNCHANGED <<trace, wifi, status>>

PingPacketLoss ==
    /\ ping.pc = "packet_loss"
    /\ \E overflow_checks \in BOOLEAN : ping' = PacketLoss(ping, overflow_checks)
    /\ UNCHANGED <<trace, wifi, status>>

PingStatsPattern ==
    /\ ping.pc = "stats_pattern"
    /\ ping' = StatsPattern(ping)
    /\ UNCHANGED <<trace, wifi, status>>

PingTimingPattern ==
    /\ ping.pc = "timing_pattern"
    /\ ping' = TimingPattern(ping)
    /\ UNCHANGED <<trace, wifi, status>>

PingRespond ==
    /\ ping.pc = "return"
    /\ ping' = Respond(ping)
    /\ UNCHANGED <<trace, wifi, status>>

TraceIdle == [pc |-> "idle"]
WifiIdle == [pc |-> "idle"]
StatusIdle == [pc |-> "idle"]

PingInit ==
    /\ ping \in {PingStart(o, c) : o \in PingOutputs, c \in 0..MaxCount}
    /\ trace = TraceIdle
    /\ wifi = WifiIdle
    /\ status = StatusIdle

PingNext ==
    \/ PingIpPattern
    \/ PingLine
    \/ PingStatistics
    \/ PingPacketLoss
    \/ PingStatsPattern
    \/ PingTimingPattern
    \/ PingRespond

PingSpec == PingInit /\ [][PingNext]_vars

---------------------------------------------------------------------------
\* tracert: the text of Windows tracert

\* "Tracing route to <host> [<ip>]" or "Tracing route to <ip> over a maximum ..."
THeader(ip) == Tok("Tracing route to", ip, <<>>)
\* The hop index that starts a hop line
THop(n) == Tok("hop", NoAddr, <<n>>)
\* One probe: "<n> ms", "<<n> ms" or "*"
TMs(n) == Tok("ms", NoAddr, <<n>>)
TLtMs(n) == Tok("<ms", NoAddr, <<n>>)
TStar == Tok("*", NoAddr, <<>>)
\* The address field: a bare address, "[<address>]", or another word
TIp(ip) == Tok("ip", ip, <<>>)
TBracketIp(ip) == Tok("[ip]", ip, <<>>)
TWord(w) == Tok("word", Word(w), <<>>)
TTraceComplete == Tok("Trace complete", NoAddr, <<>>)
TMaximum == Tok("over a maximum of 30 hops:", NoAddr, <<>>)

IsProbe(tok) == tok.t \in {"ms", "<ms", "*"}

TraceLines ==
    { <<THeader(IpA)>>,
      <<THeader(IpB)>>,
      <<TMaximum>>,
      <<THop(Numeral(1)), TLtMs(Numeral(1)), TLtMs(Numeral(1)), TLtMs(Numeral(1)), TIp(IpC)>>,
      <<THop(Numeral(2)), TMs(Numeral(8)), TStar, TMs(Numeral(9)),
        TWord("dns.google"), TBracketIp(IpB)>>,
      <<THop(Numeral(2)), TStar, TStar, TStar, TTimedOut>>,
      <<THop(Numeral(3)), TMs(Numeral(12)), TMs(Numeral(11)), TMs(Numeral(12)), TIp(IpA)>>,
      <<THop(Numeral(3)), TStar, TStar, TMs(Numeral(30)), TWord("fe80::1")>>,
      <<THop(TooBig), TStar, TStar, TStar, TStar>>,
      <<THop(Numeral(4)), TMs(Numeral(8)), TMs(Numeral(9)), TIp(IpB)>>,
      <<TTraceComplete>> }

TraceOutputs == UNION {[1..n -> TraceLines] : n \in 0..MaxLines}

\* dest_ip_pattern: Tracing route to.*\[?(\d+\.\d+\.\d+\.\d+)\]?
\* The greedy .* takes all it can and gives back only what the address pattern
\* needs: the capture starts at the last digit of the first octet.
DestIpCaptures(output) ==
    LET hits == {i \in 1..Len(output) : HasTok(output[i], "Tracing route to")}
    IN  IF hits = {} THEN None
        ELSE LET line == output[SetMin(hits)]
                 ip == line[SetMin({j \in 1..Len(line) : line[j].t = "Tracing route to"})].a
             IN  Some(<<TIp(Addr(<<ip.o1[Len(ip.o1)]>>, ip.tl))>>)

\* hop_pattern:
\*   ^\s*(\d+)\s+(?:(<?\d+)\s*ms|(\*))\s+(?:(<?\d+)\s*ms|(\*))\s+(?:(<?\d+)\s*ms|(\*))\s+(.+)$
HopCaptures(line) ==
    IF /\ Len(line) >= 5
       /\ line[1].t = "hop"
       /\ IsProbe(line[2]) /\ IsProbe(line[3]) /\ IsProbe(line[4])
    THEN Some([num |-> line[1].v[1],
               probes |-> SubSeq(line, 2, 4),
               rest |-> SubSeq(line, 5, Len(line))])
    ELSE None

\* Defective variant: a timed-out probe zero-filled
ProbeTimeZeroFilled(tok) == IF tok.t = "*" THEN Some(Ratio(0, 1)) ELSE ParseF64(tok.v[1])

\* The probe's capture, trim_start_matches('<'), parse::<f64>()
ProbeTime(tok) == IF tok.t = "*" THEN None ELSE ParseF64(tok.v[1])

RECURSIVE ProbeTimes(_)
ProbeTimes(probes) ==
    IF probes = <<>> THEN <<>>
    ELSE ProbeTime(probes[1]) \o ProbeTimes(Tail(probes))

\* hostname_ip_pattern: (\S+)\s+\[(\d+\.\d+\.\d+\.\d+)\]
HostnameIpStarts(rest) ==
    {k \in 1..(Len(rest) - 1) : rest[k + 1].t = "[ip]"}

\* ip_pattern: (\d+\.\d+\.\d+\.\d+)
IpStarts(rest) == {k \in 1..Len(rest) : rest[k].t \in {"ip", "[ip]"}}

\* Defective variant: "Request timed out" not recognised, only a bare "*"
HostnameAndIpStarOnly(rest) ==
    IF rest = <<TStar>>
    THEN [ip |-> <<TStar>>, hostname |-> None]
    ELSE IF HostnameIpStarts(rest) /= {}
    THEN LET k == SetMin(HostnameIpStarts(rest))
         IN  [ip |-> <<TIp(rest[k + 1].a)>>, hostname |-> Some(<<rest[k]>>)]
    ELSE IF IpStarts(rest) /= {}
    THEN [ip |-> <<TIp(rest[SetMin(IpStarts(rest))].a)>>, hostname |-> None]
    ELSE [ip |-> rest, hostname |-> None]

\* "Extract hostname and IP": the pair (ip, hostname), strings as token sequences
HostnameAndIp(rest) ==
    IF HasTok(rest, "Request timed out") \/ rest = <<TStar>>
    THEN [ip |-> <<TStar>>, hostname |-> None]
    ELSE IF HostnameIpStarts(rest) /= {}
    THEN LET k == SetMin(HostnameIpStarts(rest))
         IN  [ip |-> <<TIp(rest[k + 1].a)>>, hostname |-> Some(<<rest[k]>>)]
    ELSE IF IpStarts(rest) /= {}
    THEN [ip |-> <<TIp(rest[SetMin(IpStarts(rest))].a)>>, hostname |-> None]
    ELSE [ip |-> rest, hostname |-> None]

---------------------------------------------------------------------------
\* tracert: parse_tracert_output and execute

\* The state at the call of parse_tracert_output(output, host)
TraceStart(output) ==
    [pc |-> "dest_ip_pattern", output |-> output, i |-> 0,
     destination_ip |-> None,
     data |-> [host |-> "host", hops |-> <<>>, destination_reached |-> FALSE,
               total_hops |-> 0],
     success |-> None, exit |-> None]

DestIpPattern(t) ==
    [t EXCEPT !.pc = "lines", !.destination_ip = DestIpCaptures(t.output)]

\* The hop_num of a hop line: parse().unwrap_or(0)
HopNum(c) == LET n == ParseU32(c.num) IN IF IsSome(n) THEN Unwrap(n) ELSE 0

\* "Check if this is the destination"
IsDestination(t, ip) == IsSome(t.destination_ip) /\ ip = Unwrap(t.destination_ip)

\* total_hops after a hop line
TotalHops(t, hop_num) == hop_num

\* Defective variant: the hops renumbered in the order they are met
HopLineRenumbered(t, c) ==
    LET hop_num == Len(t.data.hops) + 1
        times == ProbeTimes(c.probes)
        h == HostnameAndIp(c.rest)
    IN  [t EXCEPT !.i = @ + 1,
                  !.data.destination_reached = IF IsDestination(t, h.ip) THEN TRUE ELSE @,
                  !.data.hops = Append(@, [hop |-> hop_num, ip |-> h.ip,
                                           hostname |-> h.hostname,
                                           time_ms |-> IF times = <<>> THEN None
                                                       ELSE Some(times)]),
                  !.data.total_hops = TotalHops(t, hop_num)]

\* A line hop_pattern matches
HopLine(t, c) ==
    LET hop_num == HopNum(c)
        times == ProbeTimes(c.probes)
        h == HostnameAndIp(c.rest)
    IN  [t EXCEPT !.i = @ + 1,
                  !.data.destination_reached = IF IsDestination(t, h.ip) THEN TRUE ELSE @,
                  !.data.hops = Append(@, [hop |-> hop_num, ip |-> h.ip,
                                           hostname |-> h.hostname,
                                           time_ms |-> IF times = <<>> THEN None
                                                       ELSE Some(times)]),
                  !.data.total_hops = TotalHops(t, hop_num)]

TraceLineStep(t) ==
    LET caps == HopCaptures(t.output[t.i + 1])
    IN  IF IsSome(caps) THEN HopLine(t, Unwrap(caps)) ELSE [t EXCEPT !.i = @ + 1]

\* output.contains("Trace complete")
ContainsTraceComplete(output) ==
    \E k \in 1..Len(output) : HasTok(output[k], "Trace complete")

\* Defective variant: the completion marker assigned, not or-ed
TraceCompleteAssign(t) ==
    [t EXCEPT !.pc = "return",
              !.data.destination_reached = ContainsTraceComplete(t.output)]

\* "Check for "Trace complete" message", and Ok(data)
TraceCompleteCheck(t) ==
    [t EXCEPT !.pc = "return",
              !.data.destination_reached =
                  IF ContainsTraceComplete(t.output) THEN TRUE ELSE @]

\* execute, after parse_tracert_output returned Ok(data)
TraceRespondStep(t) ==
    [t EXCEPT !.pc = "done",
              !.success = Some(t.data.destination_reached),
              !.exit = Some(Success)]

TraceDestIpPattern ==
    /\ trace.pc = "dest_ip_pattern"
    /\ trace' = DestIpPattern(trace)
    /\ UNCHANGED <<ping, wifi, status>>

TraceLine ==
    /\ trace.pc = "lines"
    /\ trace.i < Len(trace.output)
    /\ trace' = TraceLineStep(trace)
    /\ UNCHANGED <<ping, wifi, status>>

TraceComplete ==
    /\ trace.pc = "lines"
    /\ trace.i = Len(trace.output)
    /\ trace' = TraceCompleteCheck(trace)
    /\ UNCHANGED <<ping, wifi, status>>

TraceRespond ==
    /\ trace.pc = "return"
    /\ trace' = TraceRespondStep(trace)
    /\ UNCHANGED <<ping, wifi, status>>

TraceInit ==
    /\ ping = PingIdle
    /\ trace \in {TraceStart(o) : o \in TraceOutputs}
    /\ wifi = WifiIdle
    /\ status = StatusIdle

TraceNext ==
    \/ TraceDestIpPattern
    \/ TraceLine
    \/ TraceComplete
    \/ TraceRespond

TraceSpec == TraceInit /\ [][TraceNext]_vars

---------------------------------------------------------------------------
\* ping: properties

IsReplyLine(line) == IsSome(ReplyCaptures(line))
IsTimeoutLine(line) == ~IsReplyLine(line) /\ TimeoutMatch(line)
IsClassified(line) == IsReplyLine(line) \/ IsTimeoutLine(line)

\* The reply lines, and the classified lines, among the first n lines
ReplyLines(output, n) == {k \in 1..n : IsReplyLine(output[k])}
ClassifiedLines(output, n) == {k \in 1..n : IsClassified(output[k])}

\* The line the j-th sample comes from
RECURSIVE NthOf(_, _)
NthOf(S, j) == IF j = 1 THEN SetMin(S) ELSE NthOf(S \ {SetMin(S)}, j - 1)

HasStatsLine(output) == IsSome(StatsCaptures(output))
HasTimingLine(output) == IsSome(TimingCaptures(output))

PingReturned == ping.pc \in {"return", "done"}

\* C1: in every PingSummary the parser returns, packets_received <= packets_sent.
C1_ReceivedAtMostSent ==
    PingReturned => ping.data.packets_received <= ping.data.packets_sent

\* C2: an output of k reply lines and n-k timeout/unreachable lines in any
\* order, n the requested count, and no statistics line, gives
\* packets_received = k, packets_sent = n and the sequence numbers 1..n in order;
\* the parse does not abort on it.
C2_Pre ==
    /\ ping.pc /= "idle"
    /\ Len(ping.output) = ping.count
    /\ \A k \in 1..Len(ping.output) : IsClassified(ping.output[k])
    /\ ~HasStatsLine(ping.output)

C2_CountsAndSequence ==
    C2_Pre =>
        /\ ping.pc /= "panic"
        /\ PingReturned =>
            /\ ping.data.packets_received =
                   Cardinality(ReplyLines(ping.output, Len(ping.output)))
            /\ ping.data.packets_sent = ping.count
            /\ Len(ping.data.results) = ping.count
            /\ \A j \in 1..ping.count : ping.data.results[j].seq = j

C2_Witness ==
    /\ C2_Pre
    /\ ping.pc = "done"
    /\ ping.count >= 2
    /\ ReplyLines(ping.output, Len(ping.output)) /= {}
    /\ IsTimeoutLine(ping.output[1])

\* The numerals a, b, c, d of the first statistics line of the output
StatsLine == Unwrap(StatsCaptures(ping.output))

TimingLine == Unwrap(TimingCaptures(ping.output))

\* C4: the timing summary line sets each of min, max and avg only when the
\* per-line pass left it absent, and leaves a per-line value unchanged.
C4_TimingFillsOnlyAbsent ==
    [][ping.pc = "timing_pattern" =>
        /\ IF IsSome(ping.data.min_ms) THEN ping'.data.min_ms = ping.data.min_ms
           ELSE IF HasTimingLine(ping.output)
                THEN ping'.data.min_ms = ParseF64(TimingLine[1])
                ELSE IsNone(ping'.data.min_ms)
        /\ IF IsSome(ping.data.max_ms) THEN ping'.data.max_ms = ping.data.max_ms
           ELSE IF HasTimingLine(ping.output)
                THEN ping'.data.max_ms = ParseF64(TimingLine[2])
                ELSE IsNone(ping'.data.max_ms)
        /\ IF IsSome(ping.data.avg_ms) THEN ping'.data.avg_ms = ping.data.avg_ms
           ELSE IF HasTimingLine(ping.output)
                THEN ping'.data.avg_ms = ParseF64(TimingLine[3])
                ELSE IsNone(ping'.data.avg_ms)]_vars

\* Per-line times and a timing line with other values: the per-line ones stand
C4_Witness ==
    /\ ping.pc = "done"
    /\ HasTimingLine(ping.output)
    /\ Len(ping.times) >= 2
    /\ IsSome(ping.data.min_ms)
    /\ ping.data.min_ms /= ParseF64(TimingLine[1])
    /\ ping.data.max_ms /= ParseF64(TimingLine[2])
    /\ ping.data.avg_ms /= ParseF64(TimingLine[3])

\* The time and TTL fields a reply line carries
TimeFields(line) == {k \in 1..Len(line) : line[k].t = "time=ms"}
TtlFields(line) == {k \in 1..Len(line) : line[k].t = "TTL="}

\* C5: a reply line with a time field T and a TTL field gives a sample with
\* round-trip time T and that TTL (a TTL a u32 holds), and T is among the times
\* min/avg/max are computed from.
C5_ReplyTimeAndTtl ==
    PingReturned =>
        \A j \in 1..Len(ping.data.results) :
            LET line == ping.output[NthOf(ClassifiedLines(ping.output, Len(ping.output)), j)]
            IN  (IsReplyLine(line) /\ TimeFields(line) /= {}) =>
                    LET T == ParseF64(line[SetMin(TimeFields(line))].v[1])
                        ttl == line[SetMin(TtlFields(line))].v[1]
                    IN  /\ ping.data.results[j].time_ms = T
                        /\ \E k \in 1..Len(ping.times) : ping.times[k] = Unwrap(T)
                        /\ FitsU32(ttl) =>
                            /\ IsSome(ping.data.results[j].ttl)
                            /\ Numeral(Unwrap(ping.data.results[j].ttl)) = StripZeros(ttl)

NoReplyLines == ping.pc /= "idle" /\ ReplyLines(ping.output, Len(ping.output)) = {}

\* C6 as stated: zero reply lines give min, avg and max absent, 100% loss,
\* a returned result, success = false and the Timeout exit code; the Success
\* exit code is returned exactly when packets_received > 0.
C6_ZeroRepliesIsTimeout ==
    /\ NoReplyLines =>
        /\ ping.pc /= "panic"
        /\ PingReturned =>
            /\ IsNone(ping.data.min_ms) /\ IsNone(ping.data.avg_ms) /\ IsNone(ping.data.max_ms)
            /\ ping.data.packet_loss_percent = Ratio(100, 1)
        /\ ping.pc = "done" => ping.success = Some(FALSE) /\ ping.exit = Some(Timeout)
    /\ ping.pc = "done" => (ping.exit = Some(Success) <=> ping.data.packets_received > 0)

\* C6 amended: the summary lines take part.  Zero reply lines give min, avg
\* and max absent when there is no timing line, and 100% loss and
\* packets_received = 0 when there is no statistics line; the parser returns;
\* packets_received = 0 gives success = false and the Timeout exit code, and a
\* returning operation returns Success exactly when packets_received > 0.
C6_ZeroRepliesIsTimeoutUnlessSummary ==
    /\ NoReplyLines =>
        /\ ping.pc /= "panic"
        /\ (PingReturned /\ ~HasTimingLine(ping.output)) =>
            IsNone(ping.data.min_ms) /\ IsNone(ping.data.avg_ms) /\ IsNone(ping.data.max_ms)
        /\ (PingReturned /\ ~HasStatsLine(ping.output)) =>
            /\ ping.data.packet_loss_percent = Ratio(100, 1)
            /\ ping.data.packets_received = 0
    /\ ping.pc = "done" =>
        /\ ping.data.packets_received = 0 =>
               ping.success = Some(FALSE) /\ ping.exit = Some(Timeout)
        /\ ping.exit = Some(Success) <=> ping.data.packets_received > 0
        /\ ping.success = Some(TRUE) <=> ping.data.packets_received > 0

\* Timeout lines only, a requested count above zero: the timeout outcome
C6_Witness ==
    /\ NoReplyLines
    /\ ping.pc = "done"
    /\ ping.count > 0
    /\ Len(ping.data.results) >= 2
    /\ ~HasTimingLine(ping.output) /\ ~HasStatsLine(ping.output)
    /\ ping.exit = Some(Timeout)

\* C7 (ping): the parse never aborts, a line no pattern matches changes nothing
\* but the position in the text, and no classified line gives no samples.
C7_NeverAborts ==
    /\ ping.pc /= "panic"
    /\ (PingReturned /\ ClassifiedLines(ping.output, Len(ping.output)) = {}) =>
           ping.data.results = <<>>

\* C8: the j-th sample has sequence number j; the counter counts the classified
\* lines and no other, and the samples follow the order of the lines.
C8_SequenceNumbers ==
    ping.pc \notin {"idle", "ip_pattern"} =>
        /\ Len(ping.data.results) = Cardinality(ClassifiedLines(ping.output, ping.i))
        /\ ping.seq = Len(ping.data.results)
        /\ \A j \in 1..Len(ping.data.results) :
            LET line == ping.output[NthOf(ClassifiedLines(ping.output, ping.i), j)]
            IN  /\ ping.data.results[j].seq = j
                /\ IsTimeoutLine(line) => IsNone(ping.data.results[j].ttl)
                /\ IsReplyLine(line) =>
                       ping.data.results[j].ttl = ParseU32(line[SetMin(TtlFields(line))].v[1])

\* More classified lines than the requested count, unmatched lines among them
C8_Witness ==
    /\ ping.pc = "done"
    /\ Len(ping.data.results) > ping.count
    /\ Len(ping.data.results) >= 2
    /\ Len(ping.data.results) < Len(ping.output)
    /\ IsSome(ping.data.results[2].ttl)
    /\ IsNone(ping.data.results[1].ttl)

---------------------------------------------------------------------------
\* tracert: properties

TraceReturned == trace.pc \in {"return", "done"}

RECURSIVE SeqMax(_)
SeqMax(ns) ==
    IF ns = <<>> THEN 0
    ELSE LET m == SeqMax(Tail(ns)) IN IF ns[1] > m THEN ns[1] ELSE m

HopIndices(hops) == [k \in 1..Len(hops) |-> hops[k].hop]

\* Every hop line of the output prints an index a u32 holds
HopIndicesFit ==
    \A k \in 1..Len(trace.output) :
        IsSome(HopCaptures(trace.output[k])) =>
            FitsU32(Unwrap(HopCaptures(trace.output[k])).num)

\* C9: total_hops is the maximum hop index over the hop records of the result,
\* 0 when there are none, whatever the order of the hop lines (stated for hop
\* lines whose printed index a u32 holds).
C9_TotalHopsIsMax ==
    (TraceReturned /\ HopIndicesFit) =>
        trace.data.total_hops = SeqMax(HopIndices(trace.data.hops))

HopIsDestination ==
    \E k \in 1..Len(trace.data.hops) :
        /\ IsSome(trace.destination_ip)
        /\ trace.data.hops[k].ip = Unwrap(trace.destination_ip)

\* C10: destination_reached is true exactly when some hop record's address is
\* the destination address extracted from the header or the completion marker
\* occurs in the output, and once true it stays true.
C10_DestinationReached ==
    /\ [](TraceReturned =>
            (trace.data.destination_reached
                <=> (HopIsDestination \/ ContainsTraceComplete(trace.output))))
    /\ [](trace.pc = "lines" => (trace.data.destination_reached <=> HopIsDestination))
    /\ [][trace.pc /= "idle" /\ trace.data.destination_reached
            => trace'.data.destination_reached]_vars

\* Reached by a hop's address alone, with hop lines after it
C10_Witness ==
    /\ trace.pc = "done"
    /\ ~ContainsTraceComplete(trace.output)
    /\ trace.data.destination_reached
    /\ Len(trace.data.hops) >= 2
    /\ trace.data.hops[Len(trace.data.hops)].ip /= Unwrap(trace.destination_ip)

\* The address the first header line of the output prints
HasHeader(output) == \E k \in 1..Len(output) : HasTok(output[k], "Tracing route to")
HeaderAddr(output) ==
    LET line == output[SetMin({k \in 1..Len(output) : HasTok(output[k], "Tracing route to")})]
    IN  line[SetMin({j \in 1..Len(line) : line[j].t = "Tracing route to"})].a

\* C11: the destination address extracted from the header is the printed
\* address D, and a trace with a hop of address D has destination_reached true
\* without a completion marker.
C11_DestinationIsPrinted ==
    (trace.pc \notin {"idle", "dest_ip_pattern"} /\ HasHeader(trace.output)) =>
        /\ trace.destination_ip = Some(<<TIp(HeaderAddr(trace.output))>>)
        /\ (TraceReturned
            /\ \E k \in 1..Len(trace.data.hops) :
                   trace.data.hops[k].ip = <<TIp(HeaderAddr(trace.output))>>)
               => trace.data.destination_reached

\* The hop lines among the first n lines, and the line of the j-th hop record
HopLines(output, n) == {k \in 1..n : IsSome(HopCaptures(output[k]))}
HopLineOf(output, n, j) == Unwrap(HopCaptures(output[NthOf(HopLines(output, n), j)]))

\* Three timed-out probes and the address field "Request timed out."
IsTimedOutHop(c) ==
    /\ \A k \in 1..3 : c.probes[k].t = "*"
    /\ HasTok(c.rest, "Request timed out")

\* C12 as stated: a hop line of three timed-out probes and "Request timed
\* out" gives a hop with address "*", no hostname and no probe times, and
\* destination_reached is false unless a hop's address is the parsed destination.
C12_TimedOutHop ==
    trace.pc \notin {"idle", "dest_ip_pattern"} =>
        /\ \A j \in 1..Len(trace.data.hops) :
            IsTimedOutHop(HopLineOf(trace.output, trace.i, j)) =>
                /\ trace.data.hops[j].ip = <<TStar>>
                /\ IsNone(trace.data.hops[j].hostname)
                /\ IsNone(trace.data.hops[j].time_ms)
        /\ trace.data.destination_reached => HopIsDestination

\* C12 amended: the same hop record; destination_reached is false unless a
\* hop's address is the parsed destination or the completion marker occurs in
\* the output, and the timed-out hop line itself leaves it as it was.
C12_TimedOutHopOrMarker ==
    /\ [](trace.pc \notin {"idle", "dest_ip_pattern"} =>
            /\ \A j \in 1..Len(trace.data.hops) :
                IsTimedOutHop(HopLineOf(trace.output, trace.i, j)) =>
                    /\ trace.data.hops[j].ip = <<TStar>>
                    /\ IsNone(trace.data.hops[j].hostname)
                    /\ IsNone(trace.data.hops[j].time_ms)
            /\ trace.data.destination_reached =>
                   (HopIsDestination \/ ContainsTraceComplete(trace.output)))
    /\ [][(/\ trace.pc = "lines"
           /\ trace.i < Len(trace.output)
           /\ IsSome(HopCaptures(trace.output[trace.i + 1]))
           /\ IsTimedOutHop(Unwrap(HopCaptures(trace.output[trace.i + 1]))))
          => trace'.data.destination_reached = trace.data.destination_reached]_vars

\* A timed-out hop after a header, no marker: the flag stays false
C12_Witness ==
    /\ trace.pc = "done"
    /\ IsSome(trace.destination_ip)
    /\ Len(trace.data.hops) >= 2
    /\ IsTimedOutHop(HopLineOf(trace.output, trace.i, 2))
    /\ trace.data.hops[2].ip = <<TStar>>
    /\ ~trace.data.destination_reached

\* The numeric probes of a hop line, in probe order, as f64
NumericProbes(c) == SelectSeq(c.probes, LAMBDA tok : tok.t \in {"ms", "<ms"})
NumericTimes(c) ==
    [k \in 1..Len(NumericProbes(c)) |->
        Ratio(DigitsValue(StripZeros(NumericProbes(c)[k].v[1])), 1)]

\* C13: a hop's probe-time list holds exactly the numeric probes of its line,
\* in probe order and without the "<"; timed-out probes are left out, and the
\* list is absent when all three timed out.
C13_ProbeTimes ==
    trace.pc \notin {"idle", "dest_ip_pattern"} =>
        \A j \in 1..Len(trace.data.hops) :
            LET c == HopLineOf(trace.output, trace.i, j)
            IN  IF NumericProbes(c) = <<>>
                THEN IsNone(trace.data.hops[j].time_ms)
                ELSE /\ IsSome(trace.data.hops[j].time_ms)
                     /\ Unwrap(trace.data.hops[j].time_ms) = NumericTimes(c)
                     /\ Len(Unwrap(trace.data.hops[j].time_ms)) \in 1..3

\* Two numeric probes around a timed-out one, and a hop of "<" probes
C13_Witness ==
    /\ trace.pc = "done"
    /\ Len(trace.data.hops) >= 2
    /\ \E j \in 1..Len(trace.data.hops) :
        /\ IsSome(trace.data.hops[j].time_ms)
        /\ Len(Unwrap(trace.data.hops[j].time_ms)) = 2
        /\ HopLineOf(trace.output, trace.i, j).probes[2].t = "*"
    /\ \E j \in 1..Len(trace.data.hops) :
        HopLineOf(trace.output, trace.i, j).probes[1].t = "<ms"
    /\ \E j \in 1..Len(trace.data.hops) : IsNone(trace.data.hops[j].time_ms)

\* A hop record carries the index its line prints
AsPrinted(hop, num) == FitsU32(num) /\ Numeral(hop) = StripZeros(num)

NonDecreasing(hops) ==
    \A j \in 1..(Len(hops) - 1) : hops[j].hop <= hops[j + 1].hop

\* C14 as stated: one hop record per hop line, in line order, each with the
\* index as printed, the indices non-decreasing along the list.
C14_HopList ==
    trace.pc \notin {"idle", "dest_ip_pattern"} =>
        /\ Len(trace.data.hops) = Cardinality(HopLines(trace.output, trace.i))
        /\ \A j \in 1..Len(trace.data.hops) :
            AsPrinted(trace.data.hops[j].hop, HopLineOf(trace.output, trace.i, j).num)
        /\ NonDecreasing(trace.data.hops)

\* C14 amended: one hop record per hop line, in line order, each with the index
\* as printed, or 0 when the printed index is above 4294967295; the indices are
\* those of the text, non-decreasing between two hops whenever the printed
\* indices are.
C14_HopListAsPrinted ==
    trace.pc \notin {"idle", "dest_ip_pattern"} =>
        /\ Len(trace.data.hops) = Cardinality(HopLines(trace.output, trace.i))
        /\ \A j \in 1..Len(trace.data.hops) :
            LET c == HopLineOf(trace.output, trace.i, j)
            IN  /\ IF FitsU32(c.num)
                   THEN AsPrinted(trace.data.hops[j].hop, c.num)
                   ELSE trace.data.hops[j].hop = 0
                /\ trace.data.hops[j].ip = HostnameAndIp(c.rest).ip
        /\ \A j \in 1..(Len(trace.data.hops) - 1) :
            LET a == HopLineOf(trace.output, trace.i, j).num
                b == HopLineOf(trace.output, trace.i, j + 1).num
            IN  (FitsU32(a) /\ FitsU32(b)
                 /\ DigitsValue(StripZeros(a)) <= DigitsValue(StripZeros(b)))
                    => trace.data.hops[j].hop <= trace.data.hops[j + 1].hop

\* Hop lines printed out of order around a line that is no hop line
C14_Witness ==
    /\ trace.pc = "done"
    /\ Len(trace.data.hops) = 2
    /\ Len(trace.output) = 3
    /\ ~IsSome(HopCaptures(trace.output[2]))
    /\ trace.data.hops[1].hop > trace.data.hops[2].hop
    /\ trace.data.hops[2].hop > 0

---------------------------------------------------------------------------
\* wifi scan: the strings of the security labels

\* An authentication string is the sequence of its fragments: the words and
\* the separators between them, in the letter case they are printed in.  No
\* keyword of normalize_security spans two fragments.
AuthFragments ==
    {"WPA3", "wpa3", "WPA2", "Wpa2", "WPA", "WEP", "Open", "OPEN",
     "Enterprise", "ENTERPRISE", "Personal", "SAE", "Shared", "-"}

\* str::to_lowercase, fragment by fragment
ToLowercase(auth) ==
    [k \in 1..Len(auth) |->
        CASE auth[k] \in {"WPA3", "wpa3"} -> "wpa3"
          [] auth[k] \in {"WPA2", "Wpa2"} -> "wpa2"
          [] auth[k] = "WPA" -> "wpa"
          [] auth[k] = "WEP" -> "wep"
          [] auth[k] \in {"Open", "OPEN"} -> "open"
          [] auth[k] \in {"Enterprise", "ENTERPRISE"} -> "enterprise"
          [] auth[k] = "Personal" -> "personal"
          [] auth[k] = "SAE" -> "sae"
          [] auth[k] = "Shared" -> "shared"
          [] OTHER -> auth[k]]

\* str::contains on a lower-case string: "wpa" is also inside "wpa2", "wpa3"
Contains(auth_lower, pat) ==
    \E k \in 1..Len(auth_lower) :
        \/ auth_lower[k] = pat
        \/ pat = "wpa" /\ auth_lower[k] \in {"wpa2", "wpa3"}

\* Defective variant: the families tried from the weakest to the strongest
NormalizeSecurityWeakestFirst(auth) ==
    LET auth_lower == ToLowercase(auth)
    IN  IF Contains(auth_lower, "open") THEN <<"Open">>
        ELSE IF Contains(auth_lower, "wep") THEN <<"WEP">>
        ELSE IF Contains(auth_lower, "wpa")
        THEN IF Contains(auth_lower, "enterprise")
             THEN <<"WPA", "-", "Enterprise">> ELSE <<"WPA", "-", "Personal">>
        ELSE IF Contains(auth_lower, "wpa2")
        THEN IF Contains(auth_lower, "enterprise")
             THEN <<"WPA2", "-", "Enterprise">> ELSE <<"WPA2", "-", "Personal">>
        ELSE IF Contains(auth_lower, "wpa3")
        THEN IF Contains(auth_lower, "enterprise")
             THEN <<"WPA3", "-", "Enterprise">> ELSE <<"WPA3", "-", "SAE">>
        ELSE auth

\* Defective variant: the enterprise qualifier never looked for
NormalizeSecurityNoQualifier(auth) ==
    LET auth_lower == ToLowercase(auth)
    IN  IF Contains(auth_lower, "wpa3") THEN <<"WPA3", "-", "SAE">>
        ELSE IF Contains(auth_lower, "wpa2") THEN <<"WPA2", "-", "Personal">>
        ELSE IF Contains(auth_lower, "wpa") THEN <<"WPA", "-", "Personal">>
        ELSE IF Contains(auth_lower, "wep") THEN <<"WEP">>
        ELSE IF Contains(auth_lower, "open") THEN <<"Open">>
        ELSE auth

\* normalize_security
NormalizeSecurity(auth) ==
    LET auth_lower == ToLowercase(auth)
    IN  IF Contains(auth_lower, "wpa3")
        THEN IF Contains(auth_lower, "enterprise")
             THEN <<"WPA3", "-", "Enterprise">> ELSE <<"WPA3", "-", "SAE">>
        ELSE IF Contains(auth_lower, "wpa2")
        THEN IF Contains(auth_lower, "enterprise")
             THEN <<"WPA2", "-", "Enterprise">> ELSE <<"WPA2", "-", "Personal">>
        ELSE IF Contains(auth_lower, "wpa")
        THEN IF Contains(auth_lower, "enterprise")
             THEN <<"WPA", "-", "Enterprise">> ELSE <<"WPA", "-", "Personal">>
        ELSE IF Contains(auth_lower, "wep") THEN <<"WEP">>
        ELSE IF Contains(auth_lower, "open") THEN <<"Open">>
        ELSE auth

---------------------------------------------------------------------------
\* wifi scan: signal and channel

\* i32::MAX, 2147483647
I32MaxDigits == <<2, 1, 4, 7, 4, 8, 3, 6, 4, 7>>
I32Max == DigitsValue(I32MaxDigits)

\* str::parse::<i32>() of a \d+ capture: Err when the value exceeds i32::MAX
ParseI32(ds) ==
    LET s == StripZeros(ds)
    IN  IF Len(s) < Len(I32MaxDigits)
           \/ (Len(s) = Len(I32MaxDigits) /\ LexLE(s, I32MaxDigits))
        THEN Some(DigitsValue(s)) ELSE None

\* signal_percent * 70 does not fit an i32
MulOverflows(signal_percent) == signal_percent > I32Max \div 70

\* The 32-bit two's complement product signal_percent * 70, computed in
\* 16-bit halves
WrappingMul70(signal_percent) ==
    LET half == 65536
        lo == (signal_percent % half) * 70
        hi == ((signal_percent \div half) * 70 + (lo \div half)) % half
    IN  IF hi >= half \div 2 THEN (hi - half) * half + (lo % half)
        ELSE hi * half + (lo % half)

\* Integer division of Rust: the quotient rounded towards zero
TruncDiv(x, d) == IF x >= 0 \/ x % d = 0 THEN x \div d ELSE (x \div d) + 1

\* Defective variant: one dBm for every two percent
SignalToRssiHalved(signal_percent) == -100 + signal_percent \div 2

\* signal_to_rssi
SignalToRssi(signal_percent) == -100 + TruncDiv(WrappingMul70(signal_percent), 100)

\* Defective variant: channel 0 taken for a 2.4GHz channel
ChannelToFrequencyNoUnknown(channel) ==
    IF channel <= 14 THEN "2.4GHz"
    ELSE "5GHz"

\* channel_to_frequency
ChannelToFrequency(channel) ==
    IF channel = 0 THEN "Unknown"
    ELSE IF channel <= 14 THEN "2.4GHz"
    ELSE "5GHz"

---------------------------------------------------------------------------
\* wifi scan: the text of netsh wlan show networks mode=bssid

\* The longest scan output, in lines
MaxScanLines == 5

\* "SSID <n> : <name>", at the start of the line
TSsid(name) == Tok("SSID n : ", Word(name), <<>>)
\* "    Authentication          : <auth>"
TAuthentication(auth) == Tok("Authentication : ", NoAddr, auth)
\* "    BSSID <n>               : <address>"
TBssid(address) == Tok("BSSID n : ", Word(address), <<>>)
\* "         Signal             : <n>%"
TSignal(n) == Tok("Signal : %", NoAddr, <<n>>)
\* "         Channel            : <n>"
TChannel(n) == Tok("Channel : ", NoAddr, <<n>>)

Mac1 == "aa:bb:cc:dd:ee:01"
Mac2 == "aa:bb:cc:dd:ee:02"

\* str::to_uppercase of an address
ToUppercase(address) ==
    CASE address = Mac1 -> "AA:BB:CC:DD:EE:01"
      [] address = Mac2 -> "AA:BB:CC:DD:EE:02"
      [] OTHER -> address

\* The lines a scan output is made of, and the saved profiles of the machine
\* it is taken on: two networks with up to two access points, and one access
\* point with signals and channels of every size
WifiScenarios ==
    {[lines |-> {<<TSsid("Home")>>, <<TSsid("Cafe")>>,
                 <<TAuthentication(<<"WPA2", "-", "Personal">>)>>,
                 <<TBssid(Mac1)>>, <<TBssid(Mac2)>>,
                 <<TSignal(Numeral(80))>>, <<TChannel(Numeral(36))>>},
      known_networks |-> <<"home", "Cafe">>],
     [lines |-> {<<TSsid("Home")>>, <<TBssid(Mac1)>>,
                 <<TSignal(Numeral(40))>>, <<TSignal(Numeral(150))>>,
                 <<TSignal(Numeral(99999999))>>,
                 <<TSignal(TooBig)>>,
                 <<TChannel(Numeral(6))>>, <<TChannel(TooBig)>>},
      known_networks |-> <<"Home">>]}

\* ssid_pattern: the trimmed name
SsidCaptures(line) ==
    IF line /= <<>> /\ line[1].t = "SSID n : " THEN Some(line[1].a.tl) ELSE None
\* security_pattern: the trimmed authentication string
SecurityCaptures(line) ==
    IF line /= <<>> /\ line[1].t = "Authentication : " THEN Some(line[1].v) ELSE None
\* bssid_pattern: the address
BssidCaptures(line) ==
    IF line /= <<>> /\ line[1].t = "BSSID n : " THEN Some(line[1].a.tl) ELSE None
\* signal_pattern: the digits before "%"
SignalCaptures(line) ==
    IF line /= <<>> /\ line[1].t = "Signal : %" THEN Some(line[1].v[1]) ELSE None
\* channel_pattern: the digits
ChannelCaptures(line) ==
    IF line /= <<>> /\ line[1].t = "Channel : " THEN Some(line[1].v[1]) ELSE None

---------------------------------------------------------------------------
\* wifi scan: parse_wifi_networks and scan

\* The state at the call of parse_wifi_networks(output, known_networks); the
\* lines of output are drawn from lines as the loop reads them
WifiStart(scenario) ==
    [pc |-> "lines", lines |-> scenario.lines,
     known_networks |-> scenario.known_networks,
     output |-> <<>>, networks |-> <<>>,
     current_ssid |-> None, current_security |-> None, current_bssid |-> None,
     current_signal |-> None, current_channel |-> None,
     success |-> None, exit |-> None]

UnwrapOr(o, d) == IF IsSome(o) THEN Unwrap(o) ELSE d

\* str::to_lowercase of a network name
ToLowercaseName(name) ==
    CASE name = "Home" -> "home"
      [] name = "Cafe" -> "cafe"
      [] OTHER -> name

\* Defective variant: known decided without regard to the letter case
NetworkKnownAnyCase(w) ==
    LET ssid == Unwrap(w.current_ssid)
        signal == UnwrapOr(w.current_signal, 0)
        channel == UnwrapOr(w.current_channel, 0)
    IN  [ssid |-> ssid, bssid |-> Unwrap(w.current_bssid),
         signal_strength |-> signal, signal_rssi |-> SignalToRssi(signal),
         channel |-> channel, frequency |-> ChannelToFrequency(channel),
         security |-> UnwrapOr(w.current_security, <<"Unknown">>),
         known |-> \E k \in 1..Len(w.known_networks) :
                       ToLowercaseName(w.known_networks[k]) = ToLowercaseName(ssid)]

\* The WifiNetwork built from the fields of the access point being read
Network(w) ==
    LET ssid == Unwrap(w.current_ssid)
        signal == UnwrapOr(w.current_signal, 0)
        channel == UnwrapOr(w.current_channel, 0)
    IN  [ssid |-> ssid, bssid |-> Unwrap(w.current_bssid),
         signal_strength |-> signal, signal_rssi |-> SignalToRssi(signal),
         channel |-> channel, frequency |-> ChannelToFrequency(channel),
         security |-> UnwrapOr(w.current_security, <<"Unknown">>),
         known |-> \E k \in 1..Len(w.known_networks) : w.known_networks[k] = ssid]

\* "Save previous network if exists": networks.push, or the panic of the
\* multiplication in signal_to_rssi where the build checks overflow
SavePrevious(w, overflow_checks) ==
    IF IsSome(w.current_ssid) /\ IsSome(w.current_bssid)
    THEN IF overflow_checks /\ MulOverflows(UnwrapOr(w.current_signal, 0))
         THEN [w EXCEPT !.pc = "panic"]
         ELSE [w EXCEPT !.networks = Append(@, Network(w))]
    ELSE w

\* Defective variant: a new SSID line keeps the security label, the signal
\* and the channel read before it
SsidPatternNoReset(w, line, overflow_checks) ==
    LET caps == SsidCaptures(line)
        saved == SavePrevious(w, overflow_checks)
    IN  IF IsNone(caps) THEN w
        ELSE IF saved.pc = "panic" THEN saved
        ELSE [saved EXCEPT !.current_ssid = caps,
                           !.current_bssid = None]

\* "New network SSID"
SsidPattern(w, line, overflow_checks) ==
    LET caps == SsidCaptures(line)
        saved == SavePrevious(w, overflow_checks)
    IN  IF IsNone(caps) THEN w
        ELSE IF saved.pc = "panic" THEN saved
        ELSE [saved EXCEPT !.current_ssid = caps,
                           !.current_bssid = None,
                           !.current_signal = None,
                           !.current_channel = None,
                           !.current_security = None]

\* "Security/Authentication"
SecurityPattern(w, line) ==
    LET caps == SecurityCaptures(line)
    IN  IF IsNone(caps) THEN w
        ELSE [w EXCEPT !.current_security = Some(NormalizeSecurity(Unwrap(caps)))]

\* "BSSID (access point MAC)"
BssidPattern(w, line, overflow_checks) ==
    LET caps == BssidCaptures(line)
        saved == SavePrevious(w, overflow_checks)
    IN  IF IsNone(caps) THEN w
        ELSE IF saved.pc = "panic" THEN saved
        ELSE [saved EXCEPT !.current_bssid = Some(ToUppercase(Unwrap(caps))),
                           !.current_signal = None,
                           !.current_channel = None]

\* Defective variant: a signal that does not parse unsets the pending signal
SignalPatternClearing(w, line) ==
    LET caps == SignalCaptures(line)
    IN  IF IsSome(caps)
        THEN [w EXCEPT !.current_signal = ParseI32(Unwrap(caps))]
        ELSE w

\* "Signal strength"
SignalPattern(w, line) ==
    LET caps == SignalCaptures(line)
    IN  IF IsSome(caps) /\ IsSome(ParseI32(Unwrap(caps)))
        THEN [w EXCEPT !.current_signal = ParseI32(Unwrap(caps))]
        ELSE w

\* "Channel"
ChannelPattern(w, line) ==
    LET caps == ChannelCaptures(line)
    IN  IF IsSome(caps) /\ IsSome(ParseU32(Unwrap(caps)))
        THEN [w EXCEPT !.current_channel = ParseU32(Unwrap(caps))]
        ELSE w

\* One turn of the loop over output.lines(): the five patterns in turn
ScanLine(w, line, overflow_checks) ==
    LET w0 == [w EXCEPT !.output = Append(@, line)]
        w1 == SsidPattern(w0, line, overflow_checks)
        w2 == IF w1.pc = "panic" THEN w1 ELSE SecurityPattern(w1, line)
        w3 == IF w2.pc = "panic" THEN w2 ELSE BssidPattern(w2, line, overflow_checks)
        w4 == IF w3.pc = "panic" THEN w3 ELSE SignalPattern(w3, line)
    IN  IF w4.pc = "panic" THEN w4 ELSE ChannelPattern(w4, line)

\* "Don't forget the last network"
LastNetwork(w, overflow_checks) ==
    LET saved == SavePrevious(w, overflow_checks)
    IN  IF saved.pc = "panic" THEN saved ELSE [saved EXCEPT !.pc = "sort"]

\* Defective variant: a network put before the networks of its own signal
InsertBeforeEqual(sorted, n) ==
    LET k == Cardinality({i \in 1..Len(sorted) :
                             sorted[i].signal_strength > n.signal_strength})
    IN  SubSeq(sorted, 1, k) \o <<n>> \o SubSeq(sorted, k + 1, Len(sorted))

\* A network put into a list sorted by |a, b| b.signal_strength.cmp(&a.signal_strength),
\* behind the networks that do not compare greater than it
InsertBySignal(sorted, n) ==
    LET k == Cardinality({i \in 1..Len(sorted) :
                             sorted[i].signal_strength >= n.signal_strength})
    IN  SubSeq(sorted, 1, k) \o <<n>> \o SubSeq(sorted, k + 1, Len(sorted))

\* slice::sort_by: a stable sort
RECURSIVE SortBy(_)
SortBy(networks) ==
    IF networks = <<>> THEN <<>>
    ELSE InsertBySignal(SortBy(SubSeq(networks, 1, Len(networks) - 1)),
                        networks[Len(networks)])

\* "Sort by signal strength (descending)", Ok(networks), and scan's response
SortAndRespond(w) ==
    [w EXCEPT !.pc = "done", !.networks = SortBy(@),
              !.success = Some(TRUE), !.exit = Some(Success)]

WifiLine ==
    /\ wifi.pc = "lines"
    /\ Len(wifi.output) < MaxScanLines
    /\ \E line \in wifi.lines, overflow_checks \in BOOLEAN :
           wifi' = ScanLine(wifi, line, overflow_checks)
    /\ UNCHANGED <<ping, trace, status>>

WifiLastNetwork ==
    /\ wifi.pc = "lines"
    /\ \E overflow_checks \in BOOLEAN : wifi' = LastNetwork(wifi, overflow_checks)
    /\ UNCHANGED <<ping, trace, status>>

WifiSort ==
    /\ wifi.pc = "sort"
    /\ wifi' = SortAndRespond(wifi)
    /\ UNCHANGED <<ping, trace, status>>

WifiInit ==
    /\ ping = PingIdle
    /\ trace = TraceIdle
    /\ wifi \in {WifiStart(s) : s \in WifiScenarios}
    /\ status = StatusIdle

WifiNext ==
    \/ WifiLine
    \/ WifiLastNetwork
    \/ WifiSort

WifiSpec == WifiInit /\ [][WifiNext]_vars

---------------------------------------------------------------------------
\* wifi scan: properties

IsSsidLine(line) == IsSome(SsidCaptures(line))
IsBssidLine(line) == IsSome(BssidCaptures(line))

\* The SSID line that opens the block line k of the output stands in, or 0
BlockOf(output, k) ==
    LET S == {s \in 1..k : IsSsidLine(output[s])}
    IN  IF S = {} THEN 0 ELSE CHOOSE s \in S : \A r \in S : r <= s

\* The BSSID lines inside an open SSID context
ContextBssidLines(output) ==
    {k \in 1..Len(output) : IsBssidLine(output[k]) /\ BlockOf(output, k) > 0}

\* The BSSID lines of the block the SSID line s opens
BssidLinesOf(output, s) == {k \in ContextBssidLines(output) : BlockOf(output, k) = s}

\* The line after the part of the output the BSSID line k owns: the next SSID
\* or BSSID line, or the end of the output
EndOfBssid(output, k) ==
    SetMin({j \in (k + 1)..Len(output) :
               IsSsidLine(output[j]) \/ IsBssidLine(output[j])} \cup {Len(output) + 1})

\* The line after the block the SSID line s opens
EndOfBlock(output, s) ==
    SetMin({j \in (s + 1)..Len(output) : IsSsidLine(output[j])} \cup {Len(output) + 1})

\* The last line of output[from..to-1] that satisfies P, or 0
LastLine(output, from, to, P(_)) ==
    LET S == {j \in from..(to - 1) : P(output[j])}
    IN  IF S = {} THEN 0 ELSE CHOOSE j \in S : \A r \in S : r <= j

HasSecurity(line) == IsSome(SecurityCaptures(line))
HasSignal(line) == IsSome(SignalCaptures(line)) /\ IsSome(ParseI32(Unwrap(SignalCaptures(line))))
HasChannel(line) == IsSome(ChannelCaptures(line)) /\ IsSome(ParseU32(Unwrap(ChannelCaptures(line))))

\* The label of the last Authentication line of output[from..to-1]
SecurityIn(output, from, to) ==
    LET j == LastLine(output, from, to, HasSecurity)
    IN  IF j = 0 THEN <<"Unknown">>
        ELSE NormalizeSecurity(Unwrap(SecurityCaptures(output[j])))

\* The last signal and the last channel that parse in output[from..to-1]
SignalIn(output, from, to) ==
    LET j == LastLine(output, from, to, HasSignal)
    IN  IF j = 0 THEN 0 ELSE Unwrap(ParseI32(Unwrap(SignalCaptures(output[j]))))
ChannelIn(output, from, to) ==
    LET j == LastLine(output, from, to, HasChannel)
    IN  IF j = 0 THEN 0 ELSE Unwrap(ParseU32(Unwrap(ChannelCaptures(output[j]))))

\* The blocks of the output with two or more BSSID lines
SharedBlocks(output) ==
    {s \in 1..Len(output) :
        IsSsidLine(output[s]) /\ Cardinality(BssidLinesOf(output, s)) >= 2}

\* C15: two or more BSSID lines under one SSID block yield one WifiNetwork per
\* BSSID line: a text with such a block is parsed to the end, and before the
\* sort the j-th network is the one of the j-th BSSID line, with the name and
\* the security label of its block, its own address, and the signal and the
\* channel read after its own BSSID line.
C15_BssidLinesOfOneBlock ==
    LET output == wifi.output
    IN  SharedBlocks(output) /= {} =>
            /\ wifi.pc /= "panic"
            /\ wifi.pc = "sort" =>
                /\ Len(wifi.networks) = Cardinality(ContextBssidLines(output))
                /\ \A j \in 1..Len(wifi.networks) :
                       LET k == NthOf(ContextBssidLines(output), j)
                           s == BlockOf(output, k)
                           n == wifi.networks[j]
                       IN  s \in SharedBlocks(output) =>
                               /\ n.ssid = Unwrap(SsidCaptures(output[s]))
                               /\ n.security = SecurityIn(output, s, EndOfBlock(output, s))
                               /\ n.bssid = ToUppercase(Unwrap(BssidCaptures(output[k])))
                               /\ n.signal_strength = SignalIn(output, k + 1, EndOfBssid(output, k))
                               /\ n.channel = ChannelIn(output, k + 1, EndOfBssid(output, k))

\* The networks of a list with the signal percent v, in the order of the list
WithSignal(networks, v) ==
    LET Has(n) == n.signal_strength = v IN SelectSeq(networks, Has)

Descending(networks) ==
    \A k \in 1..(Len(networks) - 1) :
        networks[k].signal_strength >= networks[k + 1].signal_strength

\* C16: the returned list is sorted by descending signal percent, and the
\* networks of one signal percent stand in it in the order they were saved in.
C16_SortedBySignal ==
    /\ [](wifi.pc = "done" => Descending(wifi.networks))
    /\ [][wifi.pc = "sort" =>
            /\ wifi'.pc = "done"
            /\ Len(wifi'.networks) = Len(wifi.networks)
            /\ \A j \in 1..Len(wifi.networks) :
                   LET v == wifi.networks[j].signal_strength
                   IN  WithSignal(wifi'.networks, v) = WithSignal(wifi.networks, v)]_vars

\* Three networks returned: the strongest is the one of the last BSSID line,
\* the other two are different access points of one signal percent.
C16_Witness ==
    /\ wifi.pc = "done"
    /\ Len(wifi.networks) = 3
    /\ wifi.networks[1].signal_strength > wifi.networks[2].signal_strength
    /\ wifi.networks[2].signal_strength = wifi.networks[3].signal_strength
    /\ wifi.networks[2].bssid /= wifi.networks[3].bssid
    /\ LET first == NthOf(ContextBssidLines(wifi.output), 1)
       IN  SignalIn(wifi.output, first + 1, EndOfBssid(wifi.output, first))
               < wifi.networks[1].signal_strength

\* A pending record that is fully formed: SSID and BSSID both set
FullyFormed(w) == IsSome(w.current_ssid) /\ IsSome(w.current_bssid)

\* C17: exactly one WifiNetwork per BSSID line inside an open SSID context.
\* No parse is given up; while the lines are read the networks saved and the
\* fully-formed pending record together are as many as those BSSID lines, and
\* after the last line the networks alone are; before the sort the j-th
\* network carries the address of the j-th such line and the name of its block.
C17_OnePerBssidLine ==
    LET output == wifi.output
        lines == ContextBssidLines(output)
    IN  /\ wifi.pc /= "panic"
        /\ wifi.pc = "lines" =>
               Len(wifi.networks) + (IF FullyFormed(wifi) THEN 1 ELSE 0) = Cardinality(lines)
        /\ wifi.pc \in {"sort", "done"} => Len(wifi.networks) = Cardinality(lines)
        /\ wifi.pc \in {"lines", "sort"} =>
               \A j \in 1..Len(wifi.networks) :
                   LET k == NthOf(lines, j)
                   IN  /\ wifi.networks[j].bssid = ToUppercase(Unwrap(BssidCaptures(output[k])))
                       /\ wifi.networks[j].ssid =
                              Unwrap(SsidCaptures(output[BlockOf(output, k)]))

\* C18: a new SSID line resets the pending signal, channel and security.
\* Right after an SSID line the three are unset; and, in the order the
\* networks are saved in, the j-th network carries the label of the last
\* Authentication line between the SSID line of its own block and the line it
\* is saved at ("Unknown" when there is none), and the signal and the channel
\* read between its own BSSID line and that line (0 when there is none).
C18_ResetOnSsidLine ==
    LET output == wifi.output
    IN  /\ (wifi.pc = "lines" /\ output /= <<>> /\ IsSsidLine(output[Len(output)])) =>
               /\ wifi.current_ssid = SsidCaptures(output[Len(output)])
               /\ wifi.current_signal = None
               /\ wifi.current_channel = None
               /\ wifi.current_security = None
        /\ wifi.pc /= "done" =>
               \A j \in 1..Len(wifi.networks) :
                   LET k == NthOf(ContextBssidLines(output), j)
                       s == BlockOf(output, k)
                       e == EndOfBssid(output, k)
                       n == wifi.networks[j]
                   IN  /\ n.security = SecurityIn(output, s + 1, e)
                       /\ n.signal_strength = SignalIn(output, k + 1, e)
                       /\ n.channel = ChannelIn(output, k + 1, e)

\* Two networks saved, of two blocks: the first block has an Authentication
\* line and the second has none, and the second network is "Unknown".
C18_Witness ==
    /\ wifi.pc = "sort"
    /\ Len(wifi.networks) = 2
    /\ LET lines == ContextBssidLines(wifi.output)
           s1 == BlockOf(wifi.output, NthOf(lines, 1))
           s2 == BlockOf(wifi.output, NthOf(lines, 2))
       IN  /\ s1 < s2
           /\ LastLine(wifi.output, s1, s2, HasSecurity) > 0
           /\ LastLine(wifi.output, s2, Len(wifi.output) + 1, HasSecurity) = 0
    /\ wifi.networks[1].security /= <<"Unknown">>
    /\ wifi.networks[2].security = <<"Unknown">>

---------------------------------------------------------------------------
\* normalize_security, called on its own

\* The longest authentication string, in fragments
MaxFragments == 3

\* The authentication strings: security_pattern captures (.+), never ""
AuthStrings == UNION {[1..k -> AuthFragments] : k \in 1..MaxFragments}

\* The state at the call of normalize_security(auth)
SecurityStart(auth) == [pc |-> "normalize_security", auth |-> auth, label |-> None]

SecurityReturn(w) == [w EXCEPT !.pc = "returned", !.label = Some(NormalizeSecurity(w.auth))]

SecurityNormalize ==
    /\ wifi.pc = "normalize_security"
    /\ wifi' = SecurityReturn(wifi)
    /\ UNCHANGED <<ping, trace, status>>

SecurityInit ==
    /\ ping = PingIdle
    /\ trace = TraceIdle
    /\ wifi \in {SecurityStart(auth) : auth \in AuthStrings}
    /\ status = StatusIdle

SecurityNext == SecurityNormalize

SecuritySpec == SecurityInit /\ [][SecurityNext]_vars

---------------------------------------------------------------------------
\* normalize_security: properties

\* The families in the order of their priority: what is looked for, and the
\* name the label starts with
FamilyKeys == <<"wpa3", "wpa2", "wpa", "wep", "open">>
FamilyNames == <<"WPA3", "WPA2", "WPA", "WEP", "Open">>

\* The families an authentication string contains, whatever the letter case
FamiliesIn(auth) ==
    {i \in 1..Len(FamilyKeys) : Contains(ToLowercase(auth), FamilyKeys[i])}

HasEnterprise(auth) == Contains(ToLowercase(auth), "enterprise")

\* The label starts with the family of the highest priority the string
\* contains, and a string that contains none is returned as it is
HighestFamily(auth, label) ==
    IF FamiliesIn(auth) = {} THEN label = auth
    ELSE label[1] = FamilyNames[SetMin(FamiliesIn(auth))]

\* C19, as claimed: the family by priority; "WPA2-Personal" for every string
\* with "wpa2" and no "enterprise"; "WPA3-Enterprise" for every string with
\* "wpa3" and "enterprise"; a string with no family verbatim.
C19_NormalizeSecurity ==
    wifi.pc = "returned" =>
        LET auth == wifi.auth
            label == Unwrap(wifi.label)
        IN  /\ HighestFamily(auth, label)
            /\ (2 \in FamiliesIn(auth) /\ ~HasEnterprise(auth)) =>
                   label = <<"WPA2", "-", "Personal">>
            /\ (1 \in FamiliesIn(auth) /\ HasEnterprise(auth)) =>
                   label = <<"WPA3", "-", "Enterprise">>

\* C19, amended: "WPA2-Personal" for every string with "wpa2", no "wpa3" and
\* no "enterprise".
C19_NormalizeSecurityByPriority ==
    wifi.pc = "returned" =>
        LET auth == wifi.auth
            label == Unwrap(wifi.label)
        IN  /\ HighestFamily(auth, label)
            /\ (2 \in FamiliesIn(auth) /\ 1 \notin FamiliesIn(auth) /\ ~HasEnterprise(auth)) =>
                   label = <<"WPA2", "-", "Personal">>
            /\ (1 \in FamiliesIn(auth) /\ HasEnterprise(auth)) =>
                   label = <<"WPA3", "-", "Enterprise">>

\* "WEP" before "Wpa2" in one string, labelled "WPA2-Personal"
C19_Witness ==
    /\ wifi.pc = "returned"
    /\ Len(wifi.auth) >= 2
    /\ wifi.auth[1] = "WEP"
    /\ wifi.auth[2] = "Wpa2"
    /\ ~HasEnterprise(wifi.auth)
    /\ wifi.label = Some(<<"WPA2", "-", "Personal">>)

\* C20, as claimed: whatever family is recognised, a string that contains
\* "enterprise" is labelled with the family name and "-Enterprise".
C20_EnterpriseQualifier ==
    (wifi.pc = "returned" /\ FamiliesIn(wifi.auth) /= {} /\ HasEnterprise(wifi.auth)) =>
        wifi.label = Some(<<FamilyNames[SetMin(FamiliesIn(wifi.auth))], "-", "Enterprise">>)

\* C20, amended: so it is for WPA3, WPA2 and WPA; a string recognised as WEP or
\* Open is labelled "WEP" or "Open" with no qualifier.
C20_EnterpriseQualifierOfWpa ==
    (wifi.pc = "returned" /\ FamiliesIn(wifi.auth) /= {} /\ HasEnterprise(wifi.auth)) =>
        LET i == SetMin(FamiliesIn(wifi.auth))
        IN  IF i <= 3 THEN wifi.label = Some(<<FamilyNames[i], "-", "Enterprise">>)
            ELSE wifi.label = Some(<<FamilyNames[i]>>)

\* "ENTERPRISE" before "WPA" in one string, labelled "WPA-Enterprise"
C20_Witness ==
    /\ wifi.pc = "returned"
    /\ HasEnterprise(wifi.auth)
    /\ wifi.auth[1] = "ENTERPRISE"
    /\ FamiliesIn(wifi.auth) = {3}
    /\ wifi.label = Some(<<"WPA", "-", "Enterprise">>)

---------------------------------------------------------------------------
\* wifi scan: the properties of the records

---------------------------------------------------------------------------
\* signal_to_rssi and channel_to_frequency, called on their own, beside the
\* scan parser that calls them for every network

\* The largest signal percent and the largest channel they are called with
MaxPercent == 110
MaxChannel == 149

\* Signals beyond any percentage, up to i32::MAX
HugeSignals == {I32Max \div 70, I32Max \div 70 + 1, 99999999, I32Max}

\* The state at the call of signal_to_rssi(signal_percent)
SignalToRssiStart(signal_percent) ==
    [pc |-> "signal_to_rssi", signal_percent |-> signal_percent, rssi |-> None]

\* The i32 returned, or the panic of the multiplication
SignalToRssiReturn(w, overflow_checks) ==
    IF overflow_checks /\ MulOverflows(w.signal_percent)
    THEN [w EXCEPT !.pc = "panic"]
    ELSE [w EXCEPT !.pc = "rssi", !.rssi = Some(SignalToRssi(w.signal_percent))]

\* The state at the call of channel_to_frequency(channel)
ChannelToFrequencyStart(channel) ==
    [pc |-> "channel_to_frequency", channel |-> channel, frequency |-> None]

ChannelToFrequencyReturn(w) ==
    [w EXCEPT !.pc = "frequency", !.frequency = Some(ChannelToFrequency(w.channel))]

MetricsSignalToRssi ==
    /\ wifi.pc = "signal_to_rssi"
    /\ \E overflow_checks \in BOOLEAN : wifi' = SignalToRssiReturn(wifi, overflow_checks)
    /\ UNCHANGED <<ping, trace, status>>

MetricsChannelToFrequency ==
    /\ wifi.pc = "channel_to_frequency"
    /\ wifi' = ChannelToFrequencyReturn(wifi)
    /\ UNCHANGED <<ping, trace, status>>

MetricsInit ==
    /\ ping = PingIdle
    /\ trace = TraceIdle
    /\ wifi \in {SignalToRssiStart(p) : p \in (0..MaxPercent) \cup HugeSignals}
                \cup {ChannelToFrequencyStart(c) : c \in 0..MaxChannel}
                \cup {WifiStart(s) : s \in WifiScenarios}
    /\ status = StatusIdle

MetricsNext ==
    \/ MetricsSignalToRssi
    \/ MetricsChannelToFrequency
    \/ WifiLine
    \/ WifiLastNetwork
    \/ WifiSort

MetricsSpec == MetricsInit /\ [][MetricsNext]_vars

\* The states of the scan parser
InParser == "networks" \in DOMAIN wifi

\* The saved-profile names
KnownNames(w) == {w.known_networks[k] : k \in 1..Len(w.known_networks)}

\* C21: a network is known if and only if its name is, letter for letter, one
\* of the saved-profile names.
C21_KnownIsExactMatch ==
    \A j \in 1..Len(wifi.networks) :
        wifi.networks[j].known <=> wifi.networks[j].ssid \in KnownNames(wifi)

\* Two networks returned: the name of one is a saved profile, the name of the
\* other differs from a saved profile in the letter case only; the first is
\* known and the second is not.
C21_Witness ==
    /\ wifi.pc = "done"
    /\ \E i, j \in 1..Len(wifi.networks) :
           /\ wifi.networks[i].ssid \in KnownNames(wifi)
           /\ wifi.networks[i].known
           /\ wifi.networks[j].ssid \notin KnownNames(wifi)
           /\ \E name \in KnownNames(wifi) :
                  ToLowercaseName(name) = ToLowercaseName(wifi.networks[j].ssid)
           /\ ~wifi.networks[j].known

\* C22: no two networks of a scan result have the same name and the same
\* address.
C22_UniquePairs ==
    \A i, j \in 1..Len(wifi.networks) :
        (wifi.networks[i].ssid = wifi.networks[j].ssid
            /\ wifi.networks[i].bssid = wifi.networks[j].bssid) => i = j

\* C23: signal_to_rssi(pct) = -100 + floor(pct * 70 / 100) for pct in 0..100:
\* -100 at 0, -65 at 50, -30 at 100, never below the value at pct - 1, within
\* -100..-30; and the RSSI of every network is signal_to_rssi of its own
\* signal percent.
C23_SignalToRssi ==
    /\ (wifi.pc = "rssi" /\ wifi.signal_percent <= 100) =>
           LET pct == wifi.signal_percent
               rssi == Unwrap(wifi.rssi)
           IN  /\ rssi = -100 + (pct * 70) \div 100
               /\ pct = 0 => rssi = -100
               /\ pct = 50 => rssi = -65
               /\ pct = 100 => rssi = -30
               /\ pct > 0 => rssi >= -100 + ((pct - 1) * 70) \div 100
               /\ rssi >= -100
               /\ rssi <= -30
    /\ (wifi.pc = "signal_to_rssi" /\ wifi.signal_percent <= 100) =>
           ~MulOverflows(wifi.signal_percent)
    /\ InParser =>
           \A j \in 1..Len(wifi.networks) :
               LET n == wifi.networks[j]
               IN  /\ n.signal_rssi = SignalToRssi(n.signal_strength)
                   /\ n.signal_strength <= 100 =>
                          n.signal_rssi = -100 + (n.signal_strength * 70) \div 100

\* The call with 50 has returned -65
C23_Witness ==
    /\ wifi.pc = "rssi"
    /\ wifi.signal_percent = 50
    /\ wifi.rssi = Some(-65)

\* C24: every network has a signal percent within 0..100.
C24_SignalIsPercent ==
    \A j \in 1..Len(wifi.networks) :
        /\ wifi.networks[j].signal_strength >= 0
        /\ wifi.networks[j].signal_strength <= 100

\* C25: channel_to_frequency is "Unknown" for 0 only, "2.4GHz" for 1..14 only,
\* and "5GHz" otherwise; the band of every network is channel_to_frequency of
\* its channel, and a network whose BSSID line is followed by no channel that
\* parses has channel 0 and band "Unknown".
C25_ChannelToFrequency ==
    /\ wifi.pc = "frequency" =>
           LET channel == wifi.channel
               frequency == Unwrap(wifi.frequency)
           IN  /\ frequency = "Unknown" <=> channel = 0
               /\ frequency = "2.4GHz" <=> (1 <= channel /\ channel <= 14)
               /\ frequency = "5GHz" <=> channel > 14
               /\ channel = 6 => frequency = "2.4GHz"
               /\ channel = 149 => frequency = "5GHz"
    /\ InParser =>
           /\ \A j \in 1..Len(wifi.networks) :
                  LET n == wifi.networks[j]
                  IN  /\ n.frequency = "Unknown" <=> n.channel = 0
                      /\ n.frequency = "2.4GHz" <=> (1 <= n.channel /\ n.channel <= 14)
                      /\ n.frequency = "5GHz" <=> n.channel > 14
           /\ wifi.pc = "sort" =>
                  \A j \in 1..Len(wifi.networks) :
                      LET k == NthOf(ContextBssidLines(wifi.output), j)
                      IN  LastLine(wifi.output, k + 1, EndOfBssid(wifi.output, k),
                                   HasChannel) = 0
                              => /\ wifi.networks[j].channel = 0
                                 /\ wifi.networks[j].frequency = "Unknown"

\* A network whose BSSID line is followed by no channel line, beside one on
\* channel 36: bands "Unknown" and "5GHz"
C25_Witness ==
    /\ wifi.pc = "sort"
    /\ \E i, j \in 1..Len(wifi.networks) :
           /\ wifi.networks[i].channel = 0
           /\ wifi.networks[i].frequency = "Unknown"
           /\ wifi.networks[j].channel = 36
           /\ wifi.networks[j].frequency = "5GHz"

---------------------------------------------------------------------------
\* status: the text of netsh wlan show interfaces

\* The longest interface listing, in lines
MaxInterfaceLines == 5

\* An interface name is the sequence of its words
WiFi == <<"Wi-Fi">>
WiFi2 == <<"Wi-Fi", "2">>

\* "    Name                   : <name>"
TName(name) == Tok("Name : ", NoAddr, name)
\* "    State                  : <state>"
TState(state) == Tok("State : ", Word(state), <<>>)
\* "    SSID                   : <name>"
TStatusSsid(name) == Tok("SSID : ", Word(name), <<>>)
\* "    BSSID                  : <address>"
TStatusBssid(address) == Tok("BSSID : ", Word(address), <<>>)
\* "    Receive rate (Mbps)    : <rate>" and "    Transmit rate (Mbps)   : <rate>"
TReceiveRate(rate) == Tok("Receive rate (Mbps) : ", Word(rate), <<>>)
TTransmitRate(rate) == Tok("Transmit rate (Mbps) : ", Word(rate), <<>>)

\* The interface filters of the caller
InterfaceFilters == {None, Some(WiFi), Some(WiFi2)}

\* The lines an interface listing is made of: two interfaces and what is
\* said of each, and one interface with an address, rates, a signal beyond
\* any percentage and the channel 0
InterfaceScenarios ==
    {{<<TName(WiFi)>>, <<TName(WiFi2)>>, <<TState("connected")>>,
      <<TState("disconnected")>>, <<TStatusSsid("Home")>>,
      <<TSignal(Numeral(80))>>, <<TChannel(Numeral(36))>>},
     {<<TName(WiFi)>>, <<TState("Connected")>>, <<TStatusBssid(Mac1)>>,
      <<TSignal(Numeral(99999999))>>, <<TChannel(Numeral(0))>>,
      <<TReceiveRate("866.7")>>, <<TTransmitRate("400")>>}}

\* line.starts_with(prefix), for the line trimmed
StartsWith(line, prefix) ==
    /\ line /= <<>>
    /\ CASE prefix = "Name" -> line[1].t = "Name : "
         [] prefix = "State" -> line[1].t = "State : "
         [] prefix = "SSID" -> line[1].t = "SSID : "
         [] prefix = "BSSID" -> line[1].t = "BSSID : "
         [] prefix = "Signal" -> line[1].t = "Signal : %"
         [] prefix = "Channel" -> line[1].t = "Channel : "
         [] prefix = "Receive rate" -> line[1].t = "Receive rate (Mbps) : "
         [] prefix = "Transmit rate" -> line[1].t = "Transmit rate (Mbps) : "
         [] OTHER -> FALSE

\* extract_value: what follows the first ':', trimmed.  Of a name it is the
\* words, of a signal the digits and the "%", of a channel the digits.
ExtractValue(line) ==
    IF line = <<>> THEN None
    ELSE IF line[1].t = "Name : " THEN Some(line[1].v)
    ELSE IF line[1].t \in {"Signal : %", "Channel : "} THEN Some(line[1].v[1])
    ELSE Some(line[1].a.tl)

\* str::to_lowercase of a state
ToLowercaseState(state) ==
    CASE state = "Connected" -> "connected"
      [] OTHER -> state

\* NetworkStatus::default()
DefaultStatus ==
    [connected |-> FALSE, connection_type |-> None, interface |-> None,
     ssid |-> None, bssid |-> None, signal_strength |-> None,
     signal_rssi |-> None, channel |-> None, frequency |-> None,
     link_speed |-> None, ip_address |-> None, subnet_mask |-> None,
     gateway |-> None, dns_servers |-> None, mac_address |-> None]

---------------------------------------------------------------------------
\* status: get_wifi_status

\* The state of get_wifi_status(interface) when netsh has run; the lines of
\* output are drawn from lines as the loop reads them
WifiStatusStart(interface, lines) ==
    [pc |-> "wifi_lines", interface |-> interface, lines |-> lines,
     output |-> <<>>, status |-> DefaultStatus,
     current_interface |-> <<>>, found_interface |-> FALSE]

\* if line.starts_with("Name")
NameLine(s, line) ==
    IF StartsWith(line, "Name") /\ IsSome(ExtractValue(line))
    THEN LET current_interface == Unwrap(ExtractValue(line))
         IN  IF IsNone(s.interface) \/ s.interface = Some(current_interface)
             THEN [s EXCEPT !.current_interface = current_interface,
                            !.found_interface = TRUE,
                            !.status.interface = Some(current_interface),
                            !.status.connection_type = Some("wifi")]
             ELSE [s EXCEPT !.current_interface = current_interface]
    ELSE s

\* else if line.starts_with("Signal"): the percentage, and the RSSI or the
\* panic of its multiplication where the build checks overflow
StatusSignal(s, value, overflow_checks) ==
    LET signal == ParseI32(value)
    IN  IF IsNone(signal) THEN s
        ELSE IF overflow_checks /\ MulOverflows(Unwrap(signal))
        THEN [s EXCEPT !.pc = "panic"]
        ELSE [s EXCEPT !.status.signal_strength = signal,
                       !.status.signal_rssi =
                           Some(-100 + TruncDiv(WrappingMul70(Unwrap(signal)), 100))]

\* else if line.starts_with("Channel")
StatusChannel(s, value) ==
    LET channel == ParseU32(value)
    IN  IF IsNone(channel) THEN s
        ELSE [s EXCEPT !.status.channel = channel,
                       !.status.frequency =
                           IF Unwrap(channel) <= 14 THEN Some("2.4GHz")
                           ELSE Some("5GHz")]

\* if let Some(value) = extract_value(line) { .. }
ValueLine(s, line, overflow_checks) ==
    LET value == ExtractValue(line)
    IN  IF IsNone(value) THEN s
        ELSE IF StartsWith(line, "State")
        THEN [s EXCEPT !.status.connected = (ToLowercaseState(Unwrap(value)) = "connected")]
        ELSE IF StartsWith(line, "SSID") /\ ~StartsWith(line, "BSSID")
        THEN [s EXCEPT !.status.ssid = value]
        ELSE IF StartsWith(line, "BSSID")
        THEN [s EXCEPT !.status.bssid = value]
        ELSE IF StartsWith(line, "Signal")
        THEN StatusSignal(s, Unwrap(value), overflow_checks)
        ELSE IF StartsWith(line, "Channel")
        THEN StatusChannel(s, Unwrap(value))
        ELSE IF StartsWith(line, "Receive rate") \/ StartsWith(line, "Transmit rate")
        THEN IF IsNone(s.status.link_speed) THEN [s EXCEPT !.status.link_speed = value]
             ELSE s
        ELSE s

\* "If we hit another interface section, stop"
AnotherInterface(s, line) ==
    IF /\ StartsWith(line, "Name")
       /\ IsSome(s.status.interface)
       /\ s.current_interface /= <<>>
       /\ s.current_interface /= Unwrap(s.status.interface)
    THEN [s EXCEPT !.pc = "wifi_break"]
    ELSE s

\* One turn of the loop over output.lines()
WifiStatusLine(s, line, overflow_checks) ==
    LET s0 == [s EXCEPT !.output = Append(@, line)]
        s1 == NameLine(s0, line)
    IN  IF ~s1.found_interface THEN s1
        ELSE LET s2 == ValueLine(s1, line, overflow_checks)
             IN  IF s2.pc = "panic" THEN s2 ELSE AnotherInterface(s2, line)

\* The loop over a whole text: every line in turn until the break or a panic
RECURSIVE WifiStatusLines(_, _, _)
WifiStatusLines(s, lines, overflow_checks) ==
    IF lines = <<>> \/ s.pc /= "wifi_lines" THEN s
    ELSE WifiStatusLines(WifiStatusLine(s, Head(lines), overflow_checks),
                         Tail(lines), overflow_checks)

\* Ok(status), after the last line or the break
WifiStatusReturn(s) == [s EXCEPT !.pc = "wifi_returned"]

StatusWifiLine ==
    /\ status.pc = "wifi_lines"
    /\ Len(status.output) < MaxInterfaceLines
    /\ \E line \in status.lines, overflow_checks \in BOOLEAN :
           status' = WifiStatusLine(status, line, overflow_checks)
    /\ UNCHANGED <<ping, trace, wifi>>

StatusWifiReturn ==
    /\ status.pc \in {"wifi_lines", "wifi_break"}
    /\ status' = WifiStatusReturn(status)
    /\ UNCHANGED <<ping, trace, wifi>>

WifiStatusInit ==
    /\ ping = PingIdle
    /\ trace = TraceIdle
    /\ wifi = WifiIdle
    /\ status \in {WifiStatusStart(f, l) : f \in InterfaceFilters, l \in InterfaceScenarios}

WifiStatusNext ==
    \/ StatusWifiLine
    \/ StatusWifiReturn

WifiStatusSpec == WifiStatusInit /\ [][WifiStatusNext]_vars

---------------------------------------------------------------------------
\* status: properties of get_wifi_status

\* The status record exists: the pass is reading lines, broke out or returned
InWifiPass == status.pc \in {"wifi_lines", "wifi_break", "wifi_returned"}

\* C26: the status of an interface carries the RSSI that signal_to_rssi
\* gives for its signal percentage and the band that channel_to_frequency
\* gives for its channel, for every percentage and every channel, the
\* channel 0 included.
C26_SameRulesAsScan ==
    InWifiPass =>
        /\ IsSome(status.status.signal_strength) =>
               status.status.signal_rssi =
                   Some(SignalToRssi(Unwrap(status.status.signal_strength)))
        /\ IsSome(status.status.channel) =>
               status.status.frequency =
                   Some(ChannelToFrequency(Unwrap(status.status.channel)))

\* The interface lines of the text that name an interface the caller accepts
Selectable(output, interface) ==
    {i \in 1..Len(output) :
         /\ StartsWith(output[i], "Name")
         /\ IsNone(interface) \/ interface = ExtractValue(output[i])}

\* The interface lines after line i that name another interface than line i
DifferingAfter(output, i) ==
    {j \in (i + 1)..Len(output) :
         /\ StartsWith(output[j], "Name")
         /\ ExtractValue(output[j]) /= ExtractValue(output[i])}

Min(S) == CHOOSE x \in S : \A y \in S : x <= y

\* The section of the interface named at line i: up to the next header that
\* names another interface
SectionOf(output, i) ==
    LET headers == DifferingAfter(output, i)
    IN  SubSeq(output, i, IF headers = {} THEN Len(output) ELSE Min(headers) - 1)

\* C27: the status is that of the first interface the filter accepts (the
\* first interface when there is no filter): its name is reported, and state,
\* SSID, BSSID, signal, channel and link rate are what the lines of that
\* section alone give; without such an interface nothing is reported.
C27_FirstInterfaceOnly ==
    InWifiPass =>
        LET selectable == Selectable(status.output, status.interface)
        IN  IF selectable = {} THEN status.status = DefaultStatus
            ELSE LET first == Min(selectable)
                     section == SectionOf(status.output, first)
                 IN  /\ status.status.interface = ExtractValue(status.output[first])
                     /\ status.status =
                            WifiStatusLines(WifiStatusStart(status.interface, {}),
                                            section, FALSE).status

---------------------------------------------------------------------------
\* status: the text of ipconfig /all
\*
\* A line is a sequence of tokens as before; the empty sequence is a blank
\* line.  An adapter header carries its words in v ("Wireless LAN adapter
\* Wi-Fi:" is <<"Wireless", "LAN", "adapter", "Wi-Fi">>), a physical address
\* its fragments ("AA", "-", "BB", ...), the other lines their value in a.

MaxAdapterLines == 5

TAdapter(words) == Tok(":", NoAddr, words)
TIpv4(ip) == Tok("   IPv4 Address. . . : (Preferred)", Word(ip), <<>>)
TSubnet(mask) == Tok("   Subnet Mask . . . : ", Word(mask), <<>>)
TGateway(ip) == Tok("   Default Gateway . . . : ", Word(ip), <<>>)
TDns(ip) == Tok("   DNS Servers . . . : ", Word(ip), <<>>)
TContinuation(ip) == Tok("      ", Word(ip), <<>>)
TPhysical(address) == Tok("   Physical Address. . . : ", NoAddr, address)
TNetbios == Tok("   NetBIOS over Tcpip. . . : Enabled", NoAddr, <<>>)
TWindowsIp == Tok("Windows IP Configuration", NoAddr, <<>>)
Blank == <<>>

WirelessWiFi == <<"Wireless", "LAN", "adapter", "Wi-Fi">>
WirelessWiFi2 == <<"Wireless", "LAN", "adapter", "Wi-Fi", "2">>
EthernetEthernet == <<"Ethernet", "adapter", "Ethernet">>
PppVpn == <<"PPP", "adapter", "VPN">>

PhysicalA == <<"AA", "-", "BB", "-", "CC", "-", "DD", "-", "EE", "-", "01">>
PhysicalB == <<"AA", "-", "BB", "-", "CC", "-", "DD", "-", "EE", "-", "02">>

\* The filters of get_ip_config: none, an interface name as netsh prints it,
\* and a name in other letters than the header's
AdapterFilters == {None, Some(WiFi), Some(<<"ethernet">>)}

\* The lines ipconfig may print: two wireless adapters and a VPN with the
\* lines of any of them, and a wired adapter with a list of DNS servers
AdapterScenarios ==
    {{<<TAdapter(WirelessWiFi)>>, <<TAdapter(WirelessWiFi2)>>, <<TAdapter(PppVpn)>>,
      <<TIpv4("192.168.1.5")>>, <<TIpv4("10.8.0.2")>>,
      <<TPhysical(PhysicalA)>>, <<TPhysical(PhysicalB)>>},
     {<<TAdapter(EthernetEthernet)>>, <<TIpv4("192.168.1.7")>>,
      <<TSubnet("255.255.255.0")>>, <<TGateway("192.168.1.1")>>,
      <<TDns("192.168.1.1")>>, <<TContinuation("8.8.8.8")>>, <<TNetbios>>}}

IsHeader(line) == line /= <<>> /\ line[1].t = ":"

\* str::to_lowercase of the words of a header or of a filter
ToLowercaseWords(words) ==
    [k \in 1..Len(words) |->
        CASE words[k] = "Wireless" -> "wireless"
          [] words[k] = "Wi-Fi" -> "wi-fi"
          [] words[k] = "Ethernet" -> "ethernet"
          [] words[k] = "LAN" -> "lan"
          [] words[k] = "PPP" -> "ppp"
          [] words[k] = "VPN" -> "vpn"
          [] OTHER -> words[k]]

\* str::contains, of whole words: pat occurs in words without a gap
ContainsWords(words, pat) ==
    \E k \in 0..(Len(words) - Len(pat)) :
        \A j \in 1..Len(pat) : words[k + j] = pat[j]

\* adapter_pattern (?i)(Wireless|Wi-Fi|Ethernet).*adapter.*: is_match
AdapterPatternIsMatch(line) ==
    /\ IsHeader(line)
    /\ LET words == ToLowercaseWords(line[1].v)
       IN  \E i, j \in 1..Len(words) :
               /\ i < j
               /\ words[i] \in {"wireless", "wi-fi", "ethernet"}
               /\ words[j] = "adapter"

\* The capture of a pattern that ends in :\s*(\d+\.\d+\.\d+\.\d+)
AddressCaptures(line, t) ==
    IF line /= <<>> /\ line[1].t = t THEN Some(line[1].a.tl) ELSE None

Ipv4Captures(line) == AddressCaptures(line, "   IPv4 Address. . . : (Preferred)")
SubnetCaptures(line) == AddressCaptures(line, "   Subnet Mask . . . : ")
GatewayCaptures(line) == AddressCaptures(line, "   Default Gateway . . . : ")
DnsCaptures(line) == AddressCaptures(line, "   DNS Servers . . . : ")
IpContinuationCaptures(line) == AddressCaptures(line, "      ")

\* mac_pattern Physical Address.*:\s*([0-9A-Fa-f-]+)
MacCaptures(line) ==
    IF line /= <<>> /\ line[1].t = "   Physical Address. . . : "
    THEN Some(line[1].v) ELSE None

\* line.trim().is_empty() and line.starts_with(' ')
TrimIsEmpty(line) == line = <<>>
StartsWithSpace(line) ==
    line /= <<>> /\ ~IsHeader(line) /\ line[1] /= TWindowsIp

\* caps[1].replace('-', ":")
ReplaceHyphens(address) ==
    [k \in 1..Len(address) |-> IF address[k] = "-" THEN ":" ELSE address[k]]

---------------------------------------------------------------------------
\* status: get_ip_config

\* The state of get_ip_config(interface) when ipconfig has run
IpConfigStart(interface, lines) ==
    [pc |-> "ip_lines", interface |-> interface, lines |-> lines,
     output |-> <<>>, status |-> DefaultStatus, in_target_adapter |-> FALSE,
     dns_servers |-> <<>>, collecting_dns |-> FALSE]

\* if adapter_pattern.is_match(line): the end of the loop when the target
\* has an address, else whether this adapter is the target
AdapterLine(s, line) ==
    IF s.in_target_adapter /\ IsSome(s.status.ip_address)
    THEN [s EXCEPT !.pc = "ip_break"]
    ELSE LET line_lower == ToLowercaseWords(line[1].v)
         IN  [s EXCEPT !.in_target_adapter =
                           IF IsSome(s.interface)
                           THEN ContainsWords(line_lower,
                                              ToLowercaseWords(Unwrap(s.interface)))
                           ELSE \/ ContainsWords(line_lower, <<"wi-fi">>)
                                \/ ContainsWords(line_lower, <<"wireless">>),
                        !.collecting_dns = FALSE]

\* The chain of if let Some(caps) = ..captures(line) over the addresses
AddressLine(s, line) ==
    IF IsSome(Ipv4Captures(line))
    THEN [s EXCEPT !.status.ip_address = Ipv4Captures(line), !.collecting_dns = FALSE]
    ELSE IF IsSome(SubnetCaptures(line))
    THEN [s EXCEPT !.status.subnet_mask = SubnetCaptures(line), !.collecting_dns = FALSE]
    ELSE IF IsSome(GatewayCaptures(line))
    THEN [s EXCEPT !.status.gateway = GatewayCaptures(line), !.collecting_dns = FALSE]
    ELSE IF IsSome(DnsCaptures(line))
    THEN [s EXCEPT !.dns_servers = Append(@, Unwrap(DnsCaptures(line))),
                   !.collecting_dns = TRUE]
    ELSE IF s.collecting_dns
    THEN IF IsSome(IpContinuationCaptures(line))
         THEN [s EXCEPT !.dns_servers = Append(@, Unwrap(IpContinuationCaptures(line)))]
         ELSE IF ~TrimIsEmpty(line) /\ ~StartsWithSpace(line)
         THEN [s EXCEPT !.collecting_dns = FALSE]
         ELSE s
    ELSE s

\* if let Some(caps) = mac_pattern.captures(line)
MacLine(s, line) ==
    IF IsSome(MacCaptures(line))
    THEN [s EXCEPT !.status.mac_address = Some(ReplaceHyphens(Unwrap(MacCaptures(line))))]
    ELSE s

\* One turn of the loop over output_str.lines()
IpConfigLine(s, line) ==
    LET s0 == [s EXCEPT !.output = Append(@, line)]
    IN  IF AdapterPatternIsMatch(line) THEN AdapterLine(s0, line)
        ELSE IF ~s0.in_target_adapter THEN s0
        ELSE MacLine(AddressLine(s0, line), line)

\* The loop over a whole text: every line in turn until the break
RECURSIVE IpConfigLines(_, _)
IpConfigLines(s, lines) ==
    IF lines = <<>> \/ s.pc /= "ip_lines" THEN s
    ELSE IpConfigLines(IpConfigLine(s, Head(lines)), Tail(lines))

\* if !dns_servers.is_empty() { .. } Ok(status)
IpConfigReturn(s) ==
    [s EXCEPT !.pc = "ip_returned",
              !.status.dns_servers =
                  IF s.dns_servers /= <<>> THEN Some(s.dns_servers) ELSE @]

StatusIpLine ==
    /\ status.pc = "ip_lines"
    /\ Len(status.output) < MaxAdapterLines
    /\ \E line \in status.lines : status' = IpConfigLine(status, line)
    /\ UNCHANGED <<ping, trace, wifi>>

StatusIpReturn ==
    /\ status.pc \in {"ip_lines", "ip_break"}
    /\ status' = IpConfigReturn(status)
    /\ UNCHANGED <<ping, trace, wifi>>

IpConfigInit ==
    /\ ping = PingIdle
    /\ trace = TraceIdle
    /\ wifi = WifiIdle
    /\ status \in {IpConfigStart(f, l) : f \in AdapterFilters, l \in AdapterScenarios}

IpConfigNext ==
    \/ StatusIpLine
    \/ StatusIpReturn

IpConfigSpec == IpConfigInit /\ [][IpConfigNext]_vars

---------------------------------------------------------------------------
\* status: execute

MaxInterfaceText == 2
MaxAdapterText == 3

\* The sequences of at most n lines of a set of lines
TextsUpTo(lines, n) == UNION {[1..k -> lines] : k \in 0..n}

\* What netsh may print, or None where it cannot be run or fails
InterfaceTexts ==
    {None} \cup
    {Some(text) : text \in TextsUpTo({<<TName(WiFi)>>, <<TName(WiFi2)>>,
                                      <<TState("connected")>>,
                                      <<TStatusSsid("Home")>>}, MaxInterfaceText)}

\* What ipconfig may print, or None where it cannot be run
AdapterTexts ==
    {None} \cup
    {Some(text) : text \in TextsUpTo({<<TAdapter(WirelessWiFi)>>,
                                      <<TAdapter(EthernetEthernet)>>,
                                      <<TIpv4("192.168.1.7")>>,
                                      <<TPhysical(PhysicalA)>>,
                                      <<TDns("192.168.1.1")>>}, MaxAdapterText)}

\* The --interface option of the status command
StatusFilters == {None, Some(WiFi), Some(WiFi2), Some(<<"ethernet">>)}

\* The state of execute(format, interface) after its first statement, with
\* what the two commands are going to print
ExecuteStart(interface, netsh, ipconfig) ==
    [pc |-> "execute", interface |-> interface, netsh |-> netsh,
     ipconfig |-> ipconfig, status |-> DefaultStatus, response |-> None,
     exit_code |-> None]

\* get_wifi_status(interface) as a whole: Err, Ok(status) or a panic
GetWifiStatus(interface, netsh, overflow_checks) ==
    IF IsNone(netsh) THEN [pc |-> "err"]
    ELSE LET s == WifiStatusLines(WifiStatusStart(interface, {}), Unwrap(netsh),
                                  overflow_checks)
         IN  IF s.pc = "panic" THEN [pc |-> "panic"]
             ELSE [pc |-> "ok", status |-> WifiStatusReturn(s).status]

\* get_ip_config(interface) as a whole: Err or Ok(status)
GetIpConfig(interface, ipconfig) ==
    IF IsNone(ipconfig) THEN [pc |-> "err"]
    ELSE [pc |-> "ok",
          status |-> IpConfigReturn(IpConfigLines(IpConfigStart(interface, {}),
                                                  Unwrap(ipconfig))).status]

\* if let Ok(wifi_info) = get_wifi_status(interface) { status = wifi_info; }
ExecuteWifiStatus(e, overflow_checks) ==
    LET wifi_info == GetWifiStatus(e.interface, e.netsh, overflow_checks)
    IN  CASE wifi_info.pc = "panic" -> [e EXCEPT !.pc = "panic"]
          [] wifi_info.pc = "ok" -> [e EXCEPT !.pc = "wifi_status",
                                              !.status = wifi_info.status]
          [] OTHER -> [e EXCEPT !.pc = "wifi_status"]

\* A field of the IP configuration fills the field that is still empty
Merge(field, ip_field) == IF IsNone(field) THEN ip_field ELSE field

\* Defective variant: the status of the IP configuration replaces the status
ExecuteIpConfigReplacing(e) ==
    LET ip_info == GetIpConfig(e.status.interface, e.ipconfig)
    IN  IF ip_info.pc = "ok"
        THEN [e EXCEPT !.pc = "ip_config",
                       !.status = [ip_info.status EXCEPT
                                       !.connected = IsSome(ip_info.status.ip_address)]]
        ELSE [e EXCEPT !.pc = "ip_config"]

\* Defective variant: connected is whether an IPv4 address was found
ExecuteIpConfigConnectedByIp(e) ==
    LET ip_info == GetIpConfig(e.status.interface, e.ipconfig)
    IN  IF ip_info.pc = "ok"
        THEN LET ip_address == Merge(e.status.ip_address, ip_info.status.ip_address)
             IN  [e EXCEPT !.pc = "ip_config",
                           !.status.ip_address = ip_address,
                           !.status.subnet_mask = Merge(@, ip_info.status.subnet_mask),
                           !.status.gateway = Merge(@, ip_info.status.gateway),
                           !.status.dns_servers = Merge(@, ip_info.status.dns_servers),
                           !.status.mac_address = Merge(@, ip_info.status.mac_address),
                           !.status.connected = IsSome(ip_address)]
        ELSE [e EXCEPT !.pc = "ip_config"]

\* if let Ok(ip_info) = get_ip_config(status.interface.as_deref()) { .. }
ExecuteIpConfig(e) ==
    LET ip_info == GetIpConfig(e.status.interface, e.ipconfig)
    IN  IF ip_info.pc = "ok"
        THEN LET ip_address == Merge(e.status.ip_address, ip_info.status.ip_address)
             IN  [e EXCEPT !.pc = "ip_config",
                           !.status.ip_address = ip_address,
                           !.status.subnet_mask = Merge(@, ip_info.status.subnet_mask),
                           !.status.gateway = Merge(@, ip_info.status.gateway),
                           !.status.dns_servers = Merge(@, ip_info.status.dns_servers),
                           !.status.mac_address = Merge(@, ip_info.status.mac_address),
                           !.status.connected = IF IsSome(ip_address) THEN TRUE ELSE @]
        ELSE [e EXCEPT !.pc = "ip_config"]

\* The response is printed and the exit code returned
ExecuteRespond(e) ==
    [e EXCEPT !.pc = "done",
              !.response = Some([success |-> TRUE, data |-> e.status]),
              !.exit_code = Some(Success)]

StatusWifi ==
    /\ status.pc = "execute"
    /\ \E overflow_checks \in BOOLEAN :
           status' = ExecuteWifiStatus(status, overflow_checks)
    /\ UNCHANGED <<ping, trace, wifi>>

StatusIp ==
    /\ status.pc = "wifi_status"
    /\ status' = ExecuteIpConfig(status)
    /\ UNCHANGED <<ping, trace, wifi>>

StatusRespond ==
    /\ status.pc = "ip_config"
    /\ status' = ExecuteRespond(status)
    /\ UNCHANGED <<ping, trace, wifi>>

StatusInit ==
    /\ ping = PingIdle
    /\ trace = TraceIdle
    /\ wifi = WifiIdle
    /\ status \in {ExecuteStart(f, n, i) :
                       f \in StatusFilters, n \in InterfaceTexts, i \in AdapterTexts}

StatusNext ==
    \/ StatusWifi
    \/ StatusIp
    \/ StatusRespond

StatusSpec == StatusInit /\ [][StatusNext]_vars

---------------------------------------------------------------------------
\* status: properties of get_ip_config

\* The headers of the text that the loop takes for the target adapter
TargetHeaders(output, interface) ==
    {i \in 1..Len(output) :
         /\ AdapterPatternIsMatch(output[i])
         /\ AdapterLine(IpConfigStart(interface, {}), output[i]).in_target_adapter}

\* The section of the adapter whose header is line i: up to the next header
AdapterSectionOf(output, i) ==
    LET headers == {j \in (i + 1)..Len(output) : IsHeader(output[j])}
    IN  SubSeq(output, i, IF headers = {} THEN Len(output) ELSE Min(headers) - 1)

\* What get_ip_config returns for a text
IpConfigOf(interface, output) ==
    IpConfigReturn(IpConfigLines(IpConfigStart(interface, {}), output)).status


\* C30: the IPv4 address, subnet mask, gateway, DNS list and physical
\* address returned are those of one and the same section of a matched
\* adapter; without a matched adapter none is returned.
C30_OneAdapterSection ==
    status.pc = "ip_returned" =>
        LET targets == TargetHeaders(status.output, status.interface)
        IN  IF targets = {} THEN status.status = DefaultStatus
            ELSE \E i \in targets :
                     status.status =
                         IpConfigOf(status.interface, AdapterSectionOf(status.output, i))

---------------------------------------------------------------------------
\* status: properties of execute

\* The fields of a status that the IP configuration supplies
IpFields(data) ==
    [ip_address |-> data.ip_address, subnet_mask |-> data.subnet_mask,
     gateway |-> data.gateway, dns_servers |-> data.dns_servers,
     mac_address |-> data.mac_address]

\* The status execute reports for a filter and the two texts, where the
\* reading of the interfaces does not panic
ExecuteOf(interface, netsh, ipconfig) ==
    ExecuteIpConfig(ExecuteWifiStatus(ExecuteStart(interface, netsh, ipconfig),
                                      FALSE)).status

\* C28: the IP fields of the response depend on the text of ipconfig and on
\* the caller's filter alone: they are the same whatever netsh printed, and
\* with a filter they are those of the adapter whose header contains the
\* filter in any letter case.
C28_IpPassIndependent ==
    status.pc = "done" /\ IsSome(status.ipconfig) =>
        LET data == Unwrap(status.response).data
        IN  /\ \A netsh \in InterfaceTexts :
                   IpFields(data) =
                       IpFields(ExecuteOf(status.interface, netsh, status.ipconfig))
            /\ IsSome(status.interface) =>
                   IpFields(data) =
                       IpFields(IpConfigOf(status.interface, Unwrap(status.ipconfig)))

\* The addresses of the IPv4 lines of a text that come after a header
AddressesAfterHeader(text) ==
    {Unwrap(Ipv4Captures(text[j])) :
         j \in {k \in 1..Len(text) :
                    /\ IsSome(Ipv4Captures(text[k]))
                    /\ \E i \in 1..(k - 1) : IsHeader(text[i])}}

\* C29: with no filter and no wireless interface, a text of ipconfig whose
\* only adapters are Ethernet adapters, one of them with an IPv4 address,
\* gives that address in the response, and connected is true.
C29_EthernetByDefault ==
    (/\ status.pc = "done"
     /\ IsNone(status.interface)
     /\ IsSome(status.ipconfig)
     /\ IsNone(Unwrap(status.response).data.interface)
     /\ \A i \in 1..Len(Unwrap(status.ipconfig)) :
            IsHeader(Unwrap(status.ipconfig)[i]) =>
                Unwrap(status.ipconfig)[i] = <<TAdapter(EthernetEthernet)>>
     /\ AddressesAfterHeader(Unwrap(status.ipconfig)) /= {})
    => LET data == Unwrap(status.response).data
       IN  /\ IsSome(data.ip_address)
           /\ Unwrap(data.ip_address) \in AddressesAfterHeader(Unwrap(status.ipconfig))
           /\ data.connected

---------------------------------------------------------------------------
\* status: properties of the DNS list

\* The DNS list a section gives when read as ipconfig writes it: the address
\* of a DNS Servers line, then the addresses of the continuation lines that
\* follow it directly; blank lines apart, any other line ends the run
RECURSIVE DnsListOf(_, _, _)
DnsListOf(lines, list, open) ==
    IF lines = <<>> THEN list
    ELSE LET line == Head(lines)
         IN  IF IsSome(DnsCaptures(line))
             THEN DnsListOf(Tail(lines), Append(list, Unwrap(DnsCaptures(line))), TRUE)
             ELSE IF open /\ IsSome(IpContinuationCaptures(line))
             THEN DnsListOf(Tail(lines),
                            Append(list, Unwrap(IpContinuationCaptures(line))), TRUE)
             ELSE IF TrimIsEmpty(line) THEN DnsListOf(Tail(lines), list, open)
             ELSE DnsListOf(Tail(lines), list, FALSE)

\* The text is one section, that of the target adapter
OneTargetSection ==
    /\ status.pc = "ip_returned"
    /\ {i \in 1..Len(status.output) : IsHeader(status.output[i])} = {1}
    /\ TargetHeaders(status.output, status.interface) = {1}

\* C31: within the section of the matched adapter the DNS list is the
\* address of the DNS Servers line followed, in the order of the text, by the
\* addresses of the continuation lines directly after it; an address after
\* the end of the list, or on the line of another field, is not in it.
C31_DnsContinuation ==
    OneTargetSection =>
        LET list == DnsListOf(Tail(status.output), <<>>, FALSE)
        IN  status.status.dns_servers = IF list = <<>> THEN None ELSE Some(list)

\* The fields of a status that only the interfaces of netsh supply
WifiFields(data) ==
    [interface |-> data.interface, connection_type |-> data.connection_type,
     ssid |-> data.ssid, bssid |-> data.bssid,
     signal_strength |-> data.signal_strength, signal_rssi |-> data.signal_rssi,
     channel |-> data.channel, frequency |-> data.frequency,
     link_speed |-> data.link_speed]

IpFieldNames == {"ip_address", "subnet_mask", "gateway", "dns_servers", "mac_address"}

\* C32: the merge leaves the fields of the WiFi pass as they are, and changes
\* an IP field only where it is empty, to the value of the IP pass.
C32_MergeFrame ==
    [][(status.pc = "wifi_status" /\ status'.pc = "ip_config") =>
           LET ip_info == GetIpConfig(status.status.interface, status.ipconfig)
           IN  /\ WifiFields(status'.status) = WifiFields(status.status)
               /\ \A f \in IpFieldNames :
                      \/ status'.status[f] = status.status[f]
                      \/ /\ IsNone(status.status[f])
                         /\ ip_info.pc = "ok"
                         /\ status'.status[f] = ip_info.status[f]]_vars

\* The merge has filled an IP field of a status with an interface and an SSID
C32_Witness ==
    /\ status.pc = "ip_config"
    /\ IsSome(status.status.interface)
    /\ IsSome(status.status.ssid)
    /\ IsSome(status.status.ip_address)

\* C33: after the merge connected is true exactly when the WiFi pass
\* reported the state connected or the IP pass found an IPv4 address.
C33_ConnectedIsEither ==
    [][(status.pc = "wifi_status" /\ status'.pc = "ip_config") =>
           LET ip_info == GetIpConfig(status.status.interface, status.ipconfig)
           IN  status'.status.connected =
                   (\/ status.status.connected
                    \/ ip_info.pc = "ok" /\ IsSome(ip_info.status.ip_address))]_vars

\* An interface without SSID and not connected, and an IPv4 address found:
\* connected is true after the merge
C33_Witness ==
    /\ status.pc = "ip_config"
    /\ IsSome(status.netsh)
    /\ GetWifiStatus(status.interface, status.netsh, FALSE).pc = "ok"
    /\ ~GetWifiStatus(status.interface, status.netsh, FALSE).status.connected
    /\ IsSome(status.status.interface)
    /\ IsNone(status.status.ssid)
    /\ IsSome(status.status.ip_address)
    /\ status.status.connected

---------------------------------------------------------------------------
\* wifi scan: properties of the numbers that do not parse

\* A Signal or Channel line whose digits are no i32, no u32
IsMalformed(line) ==
    \/ IsSome(SignalCaptures(line)) /\ IsNone(ParseI32(Unwrap(SignalCaptures(line))))
    \/ IsSome(ChannelCaptures(line)) /\ IsNone(ParseU32(Unwrap(ChannelCaptures(line))))

\* The text without its malformed lines
RECURSIVE WellFormed(_)
WellFormed(output) ==
    IF output = <<>> THEN <<>>
    ELSE IF IsMalformed(Head(output)) THEN WellFormed(Tail(output))
    ELSE <<Head(output)>> \o WellFormed(Tail(output))

\* The loop of parse_wifi_networks over a whole text, without overflow checks
RECURSIVE ScanLines(_, _)
ScanLines(w, lines) ==
    IF lines = <<>> THEN w ELSE ScanLines(ScanLine(w, Head(lines), FALSE), Tail(lines))

\* What the parser has assembled: the networks and the pending record
Assembled(w) ==
    [networks |-> w.networks, current_ssid |-> w.current_ssid,
     current_security |-> w.current_security, current_bssid |-> w.current_bssid,
     current_signal |-> w.current_signal, current_channel |-> w.current_channel]

\* The parser's state after the well-formed lines of what was read so far
OfWellFormed ==
    ScanLines(WifiStart([lines |-> wifi.lines, known_networks |-> wifi.known_networks]),
              WellFormed(wifi.output))

\* C34, amended: a number that does not parse is dropped: at every point
\* of the parse the networks and the pending record are those of the text
\* without the malformed lines, so the record is emitted, its other fields
\* are unaffected, and the field has what the other lines of the record give.
C34_MalformedAsIfNotThere ==
    /\ wifi.pc = "lines" => Assembled(wifi) = Assembled(OfWellFormed)
    /\ wifi.pc = "sort" => wifi.networks = LastNetwork(OfWellFormed, FALSE).networks
    /\ wifi.pc = "done" =>
           wifi.networks = SortAndRespond(LastNetwork(OfWellFormed, FALSE)).networks

\* A network is emitted whose last Signal line does not parse
C34_Witness ==
    /\ wifi.pc = "done"
    /\ Len(wifi.networks) >= 1
    /\ \E k \in ContextBssidLines(wifi.output) :
           LET j == LastLine(wifi.output, k + 1, EndOfBssid(wifi.output, k),
                             LAMBDA line : IsSome(SignalCaptures(line)))
           IN  j > 0 /\ IsMalformed(wifi.output[j])

\* C34, as claimed: a network whose last Signal or Channel line does not
\* parse has that field absent (0): it takes no value from another line.
C34_MalformedLeftAbsent ==
    wifi.pc = "sort" =>
        \A n \in 1..Len(wifi.networks) :
            LET k == NthOf(ContextBssidLines(wifi.output), n)
                to == EndOfBssid(wifi.output, k)
                s == LastLine(wifi.output, k + 1, to,
                              LAMBDA line : IsSome(SignalCaptures(line)))
                c == LastLine(wifi.output, k + 1, to,
                              LAMBDA line : IsSome(ChannelCaptures(line)))
            IN  /\ (s > 0 /\ IsMalformed(wifi.output[s])) =>
                       wifi.networks[n].signal_strength = 0
                /\ (c > 0 /\ IsMalformed(wifi.output[c])) =>
                       wifi.networks[n].channel = 0

---------------------------------------------------------------------------
\* ping: properties of the resolved address

\* The lines with a header "Pinging <host> [addr]", and the reply lines read
BracketHeaders(output) ==
    {i \in 1..Len(output) : HasTok(output[i], "Pinging host [ip]")}
RepliesRead(output, n) == {i \in 1..n : IsReplyLine(output[i])}

\* The address in brackets, the source of the first reply read, or none
ResolvedAddress(output, n) ==
    IF BracketHeaders(output) /= {}
    THEN LET line == output[SetMin(BracketHeaders(output))]
         IN  Some(line[SetMin({j \in 1..Len(line) : line[j].t = "Pinging host [ip]"})].a)
    ELSE IF RepliesRead(output, n) /= {}
    THEN LET line == output[SetMin(RepliesRead(output, n))]
         IN  Some(line[SetMin(ReplyStarts(line))].a)
    ELSE None

---------------------------------------------------------------------------
\* validation: validate_hostname
\*
\* A hostname is a sequence of characters: a letter that is a hexadecimal
\* digit, a letter that is none, a digit, the digit one of the Arabic-Indic
\* script (two bytes of UTF-8), a run of 251 letters, and punctuation.

MaxHostLen == 4
MAX_HOSTNAME_LENGTH == 253
RunLength == 251

Run == "g..g"
ArabicIndicOne == "U+0661"
LineFeed == "LF"

HostChars == {"a", "g", "1", ArabicIndicOne, Run, "-", ".", ":", ";", " ", LineFeed}

\* The strings of up to MaxHostLen characters, and the strings of four digits
\* with dots between them
Hostnames ==
    UNION {[1..n -> HostChars] : n \in 0..MaxHostLen}
    \cup {<<a, ".", b, ".", c, ".", d>> : a, b, c, d \in {"1", ArabicIndicOne}}

\* str::len: the bytes of the UTF-8 encoding
RECURSIVE ByteLen(_)
ByteLen(hostname) ==
    IF hostname = <<>> THEN 0
    ELSE (CASE Head(hostname) = Run -> RunLength
            [] Head(hostname) = ArabicIndicOne -> 2
            [] OTHER -> 1) + ByteLen(Tail(hostname))

\* [a-zA-Z0-9], [0-9a-fA-F], and \d, which is any decimal digit of Unicode
IsAlnum(c) == c \in {"a", "g", "1", Run}
IsHexDigit(c) == c \in {"a", "1"}
IsDigit(c) == c \in {"1", ArabicIndicOne}

\* The parts of a string between the occurrences of a separator
RECURSIVE SplitOn(_, _)
SplitOn(s, sep) ==
    LET at == {i \in 1..Len(s) : s[i] = sep}
    IN  IF at = {} THEN <<s>>
        ELSE <<SubSeq(s, 1, SetMin(at) - 1)>>
                 \o SplitOn(SubSeq(s, SetMin(at) + 1, Len(s)), sep)

\* [a-zA-Z0-9]([a-zA-Z0-9\-]*[a-zA-Z0-9])?
IsLabel(part) ==
    /\ part /= <<>>
    /\ \A i \in 1..Len(part) : IsAlnum(part[i]) \/ part[i] = "-"
    /\ IsAlnum(part[1])
    /\ IsAlnum(part[Len(part)])

\* hostname_pattern ^(label\.)*label$
HostnamePatternIsMatch(hostname) ==
    LET parts == SplitOn(hostname, ".")
    IN  \A k \in 1..Len(parts) : IsLabel(parts[k])

\* ipv4_pattern ^\d{1,3}\.\d{1,3}\.\d{1,3}\.\d{1,3}$
Ipv4PatternIsMatch(hostname) ==
    LET parts == SplitOn(hostname, ".")
    IN  /\ Len(parts) = 4
        /\ \A k \in 1..4 :
               /\ Len(parts[k]) \in 1..3
               /\ \A i \in 1..Len(parts[k]) : IsDigit(parts[k][i])

\* ipv6_pattern ^([0-9a-fA-F]{0,4}:){2,7}[0-9a-fA-F]{0,4}$|^::1$|^::$
Ipv6PatternIsMatch(hostname) ==
    \/ LET parts == SplitOn(hostname, ":")
       IN  /\ Len(parts) - 1 \in 2..7
           /\ \A k \in 1..Len(parts) :
                  /\ Len(parts[k]) <= 4
                  /\ \A i \in 1..Len(parts[k]) : IsHexDigit(parts[k][i])
    \/ hostname = <<":", ":", "1">>
    \/ hostname = <<":", ":">>

DangerousPatterns ==
    {<<"&", "&">>, <<"|", "|">>, <<";">>, <<"|">>, <<"backquote">>, <<"$", "(">>,
     <<"$", "{">>, <<LineFeed>>, <<"CR">>}

InvalidArguments == 2
\* NactlError::invalid_input
InvalidInput == [exit_code |-> InvalidArguments, code |-> "INVALID_INPUT"]

Ok == [ok |-> TRUE]
Err(e) == [ok |-> FALSE, error |-> e]

ValidateHostname(hostname) ==
    IF hostname = <<>> THEN Err(InvalidInput)
    ELSE IF ByteLen(hostname) > MAX_HOSTNAME_LENGTH THEN Err(InvalidInput)
    ELSE IF /\ ~HostnamePatternIsMatch(hostname)
            /\ ~Ipv4PatternIsMatch(hostname)
            /\ ~Ipv6PatternIsMatch(hostname)
    THEN Err(InvalidInput)
    ELSE IF \E p \in DangerousPatterns : ContainsWords(hostname, p)
    THEN Err(InvalidInput)
    ELSE Ok

\* validate_hostname called alone
HostnameStart(hostname) == [pc |-> "validate_hostname", hostname |-> hostname]

HostnameReturn(p) == [p EXCEPT !.pc = "validated"] @@ [result |-> ValidateHostname(p.hostname)]

HostnameValidate ==
    /\ ping.pc = "validate_hostname"
    /\ ping' = HostnameReturn(ping)
    /\ UNCHANGED <<trace, wifi, status>>

HostnameInit ==
    /\ ping \in {HostnameStart(h) : h \in Hostnames}
    /\ trace = TraceIdle
    /\ wifi = WifiIdle
    /\ status = StatusIdle

HostnameNext == HostnameValidate

HostnameSpec == HostnameInit /\ [][HostnameNext]_vars

\* C36: an accepted hostname is not empty, has at most 253 bytes and only
\* ASCII letters, ASCII digits, '-', '.' and ':', and does not begin with '-';
\* a hostname with ';', a space or a line break is rejected as invalid input.
C36_ValidateHostname ==
    ping.pc = "validated" =>
        LET hostname == ping.hostname
        IN  /\ ping.result.ok =>
                   /\ hostname /= <<>>
                   /\ ByteLen(hostname) <= 253
                   /\ \A i \in 1..Len(hostname) :
                          hostname[i] \in {"a", "g", "1", Run, "-", ".", ":"}
                   /\ hostname[1] /= "-"
            /\ (\E i \in 1..Len(hostname) : hostname[i] \in {";", " ", LineFeed}) =>
                   ping.result = Err(InvalidInput)

---------------------------------------------------------------------------
\* The external processes: what execute does before it calls a parser
\*
\* The outcome of Command::output is None where the process could not be
\* started, and else the exit status and the captured text.  The records of
\* this section stop where the parser is called: parser holds the text it is
\* called on.

GeneralError == 1
PermissionDenied == 3
InterfaceNotFound == 4
NotAvailable == 6

\* NactlError::command_failed and the errors of netsh::run_command
CommandFailed == [exit_code |-> GeneralError, code |-> "COMMAND_FAILED"]

OkOf(value) == [ok |-> TRUE, value |-> value]

Stdouts == {<<>>, <<Blank>>}

Processes ==
    {None} \cup {Some([success |-> s, stdout |-> t]) : s \in BOOLEAN, t \in Stdouts}

\* What netsh says on stdout and stderr, as the phrase run_command finds
Phrases ==
    {"access is denied", "not found", "wlan autoconfig", "no wireless interface",
     "the parameter is incorrect"}

NetshProcesses ==
    {None} \cup {Some([success |-> TRUE, stdout |-> t, combined |-> ""]) : t \in Stdouts}
           \cup {Some([success |-> FALSE, stdout |-> <<>>, combined |-> c]) : c \in Phrases}

\* Command::new(..).output().map_err(..)? followed by from_utf8_lossy(stdout),
\* as ping, tracert and ipconfig are run
CommandOutput(process) ==
    IF IsNone(process) THEN Err(CommandFailed)
    ELSE OkOf(Unwrap(process).stdout)

\* netsh::run_command
RunCommand(process) ==
    IF IsNone(process) THEN Err(CommandFailed)
    ELSE LET output == Unwrap(process)
         IN  IF ~output.success
             THEN CASE output.combined = "access is denied" ->
                           Err([exit_code |-> PermissionDenied, code |-> "PERMISSION_DENIED"])
                    [] output.combined = "not found" ->
                           Err([exit_code |-> GeneralError, code |-> "GENERAL_ERROR"])
                    [] output.combined = "wlan autoconfig" ->
                           Err([exit_code |-> NotAvailable, code |-> "NOT_AVAILABLE"])
                    [] output.combined = "no wireless interface" ->
                           Err([exit_code |-> InterfaceNotFound, code |-> "INTERFACE_NOT_FOUND"])
                    [] OTHER -> Err(CommandFailed)
             ELSE OkOf(output.stdout)

\* main: Err(e) => { print_error(&e); ExitCode::from(e.exit_code as u8) }
MainErr(e) ==
    [e EXCEPT !.pc = "exit",
              !.printed = Append(@, [success |-> FALSE, error |-> Unwrap(e.error).code]),
              !.exit_code = Some(Unwrap(e.error).exit_code)]

\* u32 in two halves of 16 bits
Half == 2^16
U32(hi, lo) == [hi |-> hi, lo |-> lo]
OfNat(n) == U32(n \div Half, n % Half)
U32Max == U32(Half - 1, Half - 1)
IsZero(x) == x.hi = 0 /\ x.lo = 0
Less(x, y) == x.hi < y.hi \/ (x.hi = y.hi /\ x.lo < y.lo)
U32Greater(x, y) == IF Less(x, y) THEN y ELSE x

\* x * 3 in u32: the wrapped product, and whether it overflowed
MulThree(x) ==
    LET lo == x.lo * 3
        hi == x.hi * 3 + lo \div Half
    IN  [overflow |-> hi >= Half, value |-> U32(hi % Half, lo % Half)]

\* x / y in u32, y not zero
U32Div(x, y) ==
    IF y.hi >= Half \div 2 THEN (IF Less(x, y) THEN OfNat(0) ELSE OfNat(1))
    ELSE LET d == y.hi * Half + y.lo
             t == x.hi * (Half \div 2) + x.lo \div 2
             r == x.lo % 2
             m == t % d
         IN  IF d = 1 THEN x
             ELSE OfNat(2 * (t \div d) + (IF m >= d - m - r THEN 1 ELSE 0))

\* let per_hop_timeout = if timeout == 0 { 5000 }
\*     else { std::cmp::max(500, timeout / (max_hops * 3)) };
\* None where the computation panics
PerHopTimeout(max_hops, timeout, overflow_checks) ==
    IF IsZero(timeout) THEN Some(OfNat(5000))
    ELSE LET product == MulThree(max_hops)
         IN  IF product.overflow /\ overflow_checks THEN None
             ELSE IF IsZero(product.value) THEN None
             ELSE Some(U32Greater(OfNat(500), U32Div(timeout, product.value)))

\* The values of --max-hops and --timeout: any u32
MaxHops ==
    {OfNat(0), OfNat(1), OfNat(30), OfNat(1431655765), U32(21845, 21846),
     U32(43690, 43691), U32Max}
Timeouts == {OfNat(0), OfNat(1), OfNat(1499), OfNat(60000), OfNat(90001), U32Max}

CommandHosts ==
    {<<"a", ".", "g">>, <<"1", ".", "1", ".", "1", ".", "1">>, <<>>,
     <<"a", ";", "g">>, <<"-", "a">>, <<"a", " ", "-", "g">>}

\* commands::ping::execute up to the call of parse_ping_output
PingExecuteStart(host, process) ==
    [pc |-> "execute", host |-> host, process |-> process, command |-> None,
     parser |-> None, error |-> None, printed |-> <<>>, exit_code |-> None]

\* Defective variant: the host is not validated
PingExecuteUnvalidated(p) == [p EXCEPT !.pc = "command"]

\* validation::validate_hostname(host)?;
PingExecuteValidate(p) ==
    LET result == ValidateHostname(p.host)
    IN  IF result.ok THEN [p EXCEPT !.pc = "command"]
        ELSE [p EXCEPT !.pc = "err", !.error = Some(result.error)]

\* Command::new("ping").args([.., host]).output(), and the text handed to
\* parse_ping_output
PingExecuteCommand(p) ==
    LET output == CommandOutput(p.process)
    IN  IF output.ok
        THEN [p EXCEPT !.pc = "parse_ping_output", !.command = Some(<<"ping", p.host>>),
                       !.parser = Some(output.value)]
        ELSE [p EXCEPT !.pc = "err", !.command = Some(<<"ping", p.host>>),
                       !.error = Some(output.error)]

PingValidate ==
    /\ ping.pc = "execute"
    /\ ping' = PingExecuteValidate(ping)
    /\ UNCHANGED <<trace, wifi, status>>

PingCommand ==
    /\ ping.pc = "command"
    /\ ping' = PingExecuteCommand(ping)
    /\ UNCHANGED <<trace, wifi, status>>

PingFail ==
    /\ ping.pc = "err"
    /\ ping' = MainErr(ping)
    /\ UNCHANGED <<trace, wifi, status>>

\* commands::trace::execute up to the call of parse_tracert_output
TraceExecuteStart(host, max_hops, timeout, process) ==
    [pc |-> "execute", host |-> host, max_hops |-> max_hops, timeout |-> timeout,
     process |-> process, per_hop_timeout |-> None, command |-> None,
     parser |-> None, error |-> None, printed |-> <<>>, exit_code |-> None]

TraceExecuteValidate(t) ==
    LET result == ValidateHostname(t.host)
    IN  IF result.ok THEN [t EXCEPT !.pc = "per_hop_timeout"]
        ELSE [t EXCEPT !.pc = "err", !.error = Some(result.error)]

TraceExecuteTimeout(t, overflow_checks) ==
    LET per_hop_timeout == PerHopTimeout(t.max_hops, t.timeout, overflow_checks)
    IN  IF IsNone(per_hop_timeout) THEN [t EXCEPT !.pc = "panic"]
        ELSE [t EXCEPT !.pc = "command", !.per_hop_timeout = per_hop_timeout]

\* Command::new("tracert").args(["-h", max_hops, "-w", per_hop_timeout, host])
TraceExecuteCommand(t) ==
    LET output == CommandOutput(t.process)
        command == Some(<<"tracert", t.max_hops, Unwrap(t.per_hop_timeout), t.host>>)
    IN  IF output.ok
        THEN [t EXCEPT !.pc = "parse_tracert_output", !.command = command,
                       !.parser = Some(output.value)]
        ELSE [t EXCEPT !.pc = "err", !.command = command, !.error = Some(output.error)]

TraceValidate ==
    /\ trace.pc = "execute"
    /\ trace' = TraceExecuteValidate(trace)
    /\ UNCHANGED <<ping, wifi, status>>

TraceTimeout ==
    /\ trace.pc = "per_hop_timeout"
    /\ \E overflow_checks \in BOOLEAN :
           trace' = TraceExecuteTimeout(trace, overflow_checks)
    /\ UNCHANGED <<ping, wifi, status>>

TraceCommand ==
    /\ trace.pc = "command"
    /\ trace' = TraceExecuteCommand(trace)
    /\ UNCHANGED <<ping, wifi, status>>

TraceFail ==
    /\ trace.pc = "err"
    /\ trace' = MainErr(trace)
    /\ UNCHANGED <<ping, wifi, status>>

\* commands::wifi::scan up to the call of parse_wifi_networks
ScanStart(process) ==
    [pc |-> "scan", process |-> process, parser |-> None, error |-> None,
     printed |-> <<>>, exit_code |-> None]

\* let output = netsh::run_command(&["wlan", "show", "networks", "mode=bssid"])?;
ScanRunCommand(w) ==
    LET output == RunCommand(w.process)
    IN  IF output.ok
        THEN [w EXCEPT !.pc = "parse_wifi_networks", !.parser = Some(output.value)]
        ELSE [w EXCEPT !.pc = "err", !.error = Some(output.error)]

ScanCommand ==
    /\ wifi.pc = "scan"
    /\ wifi' = ScanRunCommand(wifi)
    /\ UNCHANGED <<ping, trace, status>>

ScanFail ==
    /\ wifi.pc = "err"
    /\ wifi' = MainErr(wifi)
    /\ UNCHANGED <<ping, trace, status>>

\* commands::status::execute: the two processes of its two passes
StatusProcessesStart(netsh, ipconfig) ==
    [pc |-> "get_wifi_status", netsh |-> netsh, ipconfig |-> ipconfig,
     wifi_parser |-> None, ip_parser |-> None]

\* get_wifi_status: let output = netsh::run_command(..)?; the error is dropped
\* by execute
StatusRunCommand(s) ==
    LET output == RunCommand(s.netsh)
    IN  IF output.ok
        THEN [s EXCEPT !.pc = "get_ip_config", !.wifi_parser = Some(output.value)]
        ELSE [s EXCEPT !.pc = "get_ip_config"]

\* get_ip_config: Command::new("ipconfig").arg("/all").output(); the error is
\* dropped by execute
StatusIpconfig(s) ==
    LET output == CommandOutput(s.ipconfig)
    IN  IF output.ok
        THEN [s EXCEPT !.pc = "parsed", !.ip_parser = Some(output.value)]
        ELSE [s EXCEPT !.pc = "parsed"]

StatusNetshCommand ==
    /\ status.pc = "get_wifi_status"
    /\ status' = StatusRunCommand(status)
    /\ UNCHANGED <<ping, trace, wifi>>

StatusIpconfigCommand ==
    /\ status.pc = "get_ip_config"
    /\ status' = StatusIpconfig(status)
    /\ UNCHANGED <<ping, trace, wifi>>

\* One operation is run
CommandInit ==
    \/ /\ ping \in {PingExecuteStart(h, p) : h \in CommandHosts, p \in Processes}
       /\ trace = TraceIdle
       /\ wifi = WifiIdle
       /\ status = StatusIdle
    \/ /\ ping = PingIdle
       /\ trace \in {TraceExecuteStart(h, m, t, p) :
                         h \in CommandHosts, m \in MaxHops, t \in Timeouts,
                         p \in Processes}
       /\ wifi = WifiIdle
       /\ status = StatusIdle
    \/ /\ ping = PingIdle
       /\ trace = TraceIdle
       /\ wifi \in {ScanStart(p) : p \in NetshProcesses}
       /\ status = StatusIdle
    \/ /\ ping = PingIdle
       /\ trace = TraceIdle
       /\ wifi = WifiIdle
       /\ status \in {StatusProcessesStart(n, i) : n \in NetshProcesses, i \in Processes}

CommandNext ==
    \/ PingValidate
    \/ PingCommand
    \/ PingFail
    \/ TraceValidate
    \/ TraceTimeout
    \/ TraceCommand
    \/ TraceFail
    \/ ScanCommand
    \/ ScanFail
    \/ StatusNetshCommand
    \/ StatusIpconfigCommand

CommandSpec == CommandInit /\ [][CommandNext]_vars

---------------------------------------------------------------------------
\* execute: properties of the steps before the parser

\* The text a parser was called on is the stdout of a process that exited
\* successfully
AfterSuccess(parser, process) ==
    IsSome(parser) =>
        /\ IsSome(process)
        /\ Unwrap(process).success
        /\ parser = Some(Unwrap(process).stdout)

\* A process that exited with a failure has led to an error
FailureIsError(e) ==
    (IsSome(e.process) /\ ~Unwrap(e.process).success /\ e.pc \notin {"execute", "scan", "per_hop_timeout", "command", "panic"}) =>
        e.pc \in {"err", "exit"}

\* C35: for ping, traceroute, WiFi scan and status, a parser runs only on the
\* stdout of a process that exited successfully, and a failed exit status is
\* an error of the operation before the parser is reached.
C35_ExitStatusBeforeParser ==
    /\ ping.pc /= "idle" =>
           AfterSuccess(ping.parser, ping.process) /\ FailureIsError(ping)
    /\ trace.pc /= "idle" =>
           AfterSuccess(trace.parser, trace.process) /\ FailureIsError(trace)
    /\ wifi.pc /= "idle" =>
           AfterSuccess(wifi.parser, wifi.process) /\ FailureIsError(wifi)
    /\ status.pc /= "idle" =>
           /\ AfterSuccess(status.wifi_parser, status.netsh)
           /\ AfterSuccess(status.ip_parser, status.ipconfig)

\* What execute has done for a host that validate_hostname rejects
RejectedHost(e) ==
    ~ValidateHostname(e.host).ok =>
        /\ e.pc \in {"execute", "err", "exit"}
        /\ IsNone(e.command)
        /\ IsNone(e.parser)
        /\ e.pc = "err" => e.error = Some(InvalidInput)
        /\ IF e.pc = "exit"
           THEN /\ e.exit_code = Some(2)
                /\ e.printed = <<[success |-> FALSE, error |-> "INVALID_INPUT"]>>
           ELSE e.printed = <<>> /\ e.exit_code = None

\* C37: for a host that validate_hostname rejects, ping and trace start no
\* process and call no parser; the operation ends with the invalid-input
\* error, exit code 2, and prints nothing but that error.
C37_ValidatedBeforeProcess ==
    /\ ping.pc /= "idle" => RejectedHost(ping)
    /\ trace.pc /= "idle" => RejectedHost(trace)

C37_Witness ==
    /\ ping.pc = "exit"
    /\ ping.host = <<"a", ";", "g">>
    /\ ping.exit_code = Some(InvalidArguments)
    /\ IsNone(ping.command)

\* max(500, timeout / (max_hops * 3)) of two numbers below 2^31
Quotient(timeout, max_hops) ==
    LET q == (timeout.hi * Half + timeout.lo) \div (3 * max_hops.lo)
    IN  OfNat(IF q > 500 THEN q ELSE 500)

\* C38: the per-probe timeout is 5000 when the timeout is 0 and
\* max(500, timeout / (max_hops * 3)) otherwise, so at least 500, and the
\* computation ends with a value for every max_hops and timeout of 32 bits.
C38_PerHopTimeout ==
    trace.pc \notin {"idle", "execute", "per_hop_timeout", "err", "exit"} =>
        /\ trace.pc /= "panic"
        /\ IsSome(trace.per_hop_timeout)
        /\ ~Less(Unwrap(trace.per_hop_timeout), OfNat(500))
        /\ IsZero(trace.timeout) => trace.per_hop_timeout = Some(OfNat(5000))
        /\ (/\ ~IsZero(trace.timeout)
            /\ trace.timeout.hi < Half \div 2
            /\ trace.max_hops.hi = 0
            /\ trace.max_hops.lo > 0) =>
               trace.per_hop_timeout = Some(Quotient(trace.timeout, trace.max_hops))

====
